---- MODULE Spec2Model ----
(***************************************************************************)
(* Jarvis Core: the model registry (jarvis_core/models.py), its download   *)
(* workers, the generation manager's load state (jarvis_core/llm.py) and   *)
(* the HTTP handlers that drive them (jarvis_core/JarvisCore.py).          *)
(*                                                                         *)
(* Scheduling: one asyncio event loop plus executor threads.  No coroutine *)
(* of the registry awaits while it holds ModelRegistry._lock, so the lock  *)
(* is never contended and every stretch of event-loop code between two     *)
(* real suspension points (asyncio.to_thread) is one atomic action.  The   *)
(* body of _download_file runs on an executor thread and interleaves with  *)
(* the loop between its blocking calls.                                    *)
(*                                                                         *)
(* Scope: the model ids requests are made for, the worker slots and the    *)
(* start_download calls that can be in flight are fixed by the initial     *)
(* state (the domains of actPc, workers and calls).  Spec runs two model   *)
(* ids on one worker slot, SpecStale one model id on MaxWorkers slots (a   *)
(* cancelled worker's thread beside its successor), SpecCalls one model id *)
(* with MaxCalls concurrent start_download calls.  All share Next.         *)
(* SpecSizes widens the sizes a caller or the remote host reports.         *)
(* SpecBus and SpecBusStale add the connections of GET /models/stream (the *)
(* domain of streams) on one and on MaxWorkers worker slots.  SpecLive is  *)
(* one model on one slot with weak fairness of the worker's steps: the     *)
(* event loop runs a task that can run and a transfer comes to its end.    *)
(* SpecProgress takes the chunk update of the worker thread in two steps   *)
(* around threading.Lock _progress_lock, which the event loop's pop of a   *)
(* record does not take.                                                   *)
(*                                                                         *)
(* The other parts of the service have a specification each, over the      *)
(* same variables: SpecGen the generation manager serving POST             *)
(* /chat/completions while the model is loaded and unloaded, SpecParse the *)
(* action parser on composed texts, SpecSandbox the path resolver of the   *)
(* /actions routes on a directory tree with symbolic links, SpecRun the    *)
(* command of POST /actions/run and its timeout, SpecAuth the token        *)
(* middleware in front of the routes, SpecFetch the error code recorded    *)
(* for an upstream failure of a transfer.                                  *)
(***************************************************************************)
EXTENDS Integers, Sequences, FiniteSets, TLC

\* ------------------------------------------------------------------ bounds
\* download workers (task + thread) alive at once
MaxWorkers == 2
\* start_download requests in flight at once
MaxCalls == 2
\* chunks the remote file is streamed in
NumChunks == 1
\* bytes of one chunk of iter_content
ChunkBytes == 2
\* GET /models/stream connections open at once
MaxStreams == 1
\* POST /chat/completions requests in flight at once
MaxGens == 2
\* pieces of text the backend produces in one streaming generation
MaxChunks == 2
\* elements of an actions list
MaxActions == 2
\* tokens of a message
MaxMessage == 2
\* components of a path given to the sandbox
MaxDepth == 3
\* commands a shell starts
MaxKids == 2
\* events a subscriber's queue holds before the producers wait for it
MaxQueue == 3

\* --------------------------------------------------------------- constants
Null == "null"        \* Python's None, for string-valued fields
NoInt == 0 - 1           \* Python's None, for integer-valued fields
Models == {"alpha", "beta"}
Filenames == {"m.bin"}
Contents == {"c1", "c2"}
Expected == {Null, "h1"}

NOT_INSTALLED == "not_installed"
DOWNLOADING == "downloading"
READY == "ready"
ACTIVE == "active"

WorkerIds == 1..MaxWorkers
CallIds == 1..MaxCalls
Single == {1}
StreamIds == 1..MaxStreams
GenIds == 1..MaxGens

\* hashlib.sha256 over the streamed bytes: distinct contents, distinct digests
Sha(c) == IF c = "c1" THEN "h1" ELSE "h2"

PartOf(f) == f \o ".part"

VARIABLES
    models,       \* ModelRegistry._models: model_id -> ModelMetadata
    persisted,    \* the catalogue last written to models.json by _save
    progress,     \* ModelRegistry._progress: model_id -> record
    tasks,        \* ModelRegistry._tasks: model_id -> worker
    workers,      \* download workers: the asyncio task and its executor thread
    dirs,         \* model ids whose directory <storage>/<model_id>/ exists
    files,        \* <<model_id, name>> of the files under <storage>
    calls,        \* start_download calls in flight, awaiting their remote probe
    actPc,        \* per model: position of an in-flight POST /activate
    llm_model,    \* LLMManager._model: the loaded handle (the model it is of)
    llm_model_id, \* LLMManager._model_id
    running,      \* "running", "stopping" (llm shut down), "stopped"
    streams,      \* GET /models/stream connections and their bus queues
    llm_model_type,   \* LLMManager._model_type: the backend of the handle
    generation_lock,  \* LLMManager._generation_lock: the generation holding it
    gens,         \* POST /chat/completions requests and their generations
    parser,       \* a text given to _extract_actions and what it returned
    sandbox,      \* a path given to _resolve_allowed_path and what it returned
    auth,         \* a request at the authenticate_request middleware
    proc,         \* the subprocess of a POST /actions/run and its children
    fetch,        \* an upstream failure of a transfer and the code recorded
    progress_lock \* the worker thread inside _update_progress, if one is

vars == <<models, persisted, progress, tasks, workers, dirs, files, calls,
          actPc, llm_model, llm_model_id, running, streams, llm_model_type,
          generation_lock, gens, parser, sandbox, auth, proc, fetch,
          progress_lock>>

registryVars == <<models, persisted, progress, tasks>>
genVars == <<generation_lock, gens>>
llmVars == <<llm_model, llm_model_id, llm_model_type, genVars>>
surfaceVars == <<parser, sandbox, auth, proc, fetch, progress_lock>>
fsVars == <<dirs, files>>

\* the model ids requests are made for
ModelIds == DOMAIN actPc

\* ------------------------------------------------------------ dict helpers
Has(d, k) == k \in DOMAIN d
Put(d, k, v) == [x \in DOMAIN d \cup {k} |-> IF x = k THEN v ELSE d[x]]
Pop(d, k) == [x \in DOMAIN d \ {k} |-> d[x]]
Empty == [x \in {} |-> Null]

\* ModelMetadata(model_id=...) with the dataclass defaults
NewMetadata ==
    [state |-> NOT_INSTALLED, checksum |-> Null, filename |-> Null,
     local_path |-> Null, active_path |-> Null]

FreeWorker ==
    [model |-> Null, task |-> "free", thread |-> "none", attached |-> FALSE,
     snap |-> NewMetadata, target |-> Null, written |-> 0, result |-> Null]

\* a slot whose task has ended and whose thread is not running is reusable
Retire(wrec) ==
    IF wrec.task = "done" /\ wrec.thread \in {"none", "finished"}
    THEN FreeWorker ELSE wrec

\* a start_download call not in flight
NoCall == [model |-> Null, stage |-> "idle"]

\* the slot a new call takes
IdleCalls == {c \in DOMAIN calls : calls[c].stage = "idle"}
NextCall == CHOOSE c \in IdleCalls : \A d \in IdleCalls : c <= d


\* --------------------------------------------------------------- progress
\* round(x, 2) of 100 * downloaded / total, in hundredths of a percent
\* (Python rounds a tie to the even neighbour)
Percent(downloaded, total) ==
    LET n == 10000 * downloaded
        q == n \div total
        r == n % total
    IN  IF 2 * r > total THEN q + 1
        ELSE IF 2 * r < total THEN q
        ELSE IF q % 2 = 0 THEN q ELSE q + 1

\* asyncio.Lock(), threading.Lock(): nobody holds the lock
Unlocked == 0

\* _initialise_progress
initialise_progress(P, m) ==
    Put(P, m, [status |-> "queued", downloaded |-> 0, total |-> NoInt,
               percent |-> 0, error |-> Null, error_code |-> NoInt])

\* _update_progress: a Null / NoInt argument is Python's None (field left alone)
update_progress(P, m, status, downloaded, total, error, error_code) ==
    LET base == IF Has(P, m) THEN P[m]
                ELSE [status |-> IF status = Null THEN "unknown" ELSE status,
                      downloaded |-> IF downloaded = NoInt THEN 0 ELSE downloaded,
                      total |-> total, percent |-> 0,
                      error |-> error, error_code |-> error_code]
        e1 == [base EXCEPT
                 !.status = IF status # Null THEN status ELSE @,
                 !.downloaded = IF downloaded # NoInt THEN downloaded ELSE @,
                 !.total = IF total # NoInt THEN total ELSE @,
                 !.error = IF error # Null THEN error ELSE @,
                 !.error_code = IF error_code # NoInt THEN error_code ELSE @]
        truthy == e1.total # NoInt /\ e1.total # 0
    IN  Put(P, m, [e1 EXCEPT !.percent =
                     IF truthy THEN Percent(e1.downloaded, e1.total) ELSE NoInt])


\* ------------------------------------------------------------ progress bus
\* the progress field of an event that is no progress delta
NoRecord ==
    [status |-> Null, downloaded |-> NoInt, total |-> NoInt, percent |-> NoInt,
     error |-> Null, error_code |-> NoInt]

\* progress delta: {model_id, progress: the current record}
ProgressEvent(m, rec) ==
    [kind |-> "progress", model_id |-> m, progress |-> rec, state |-> Null]

\* metadata delta: {model_id, metadata: the current snapshot}, of which the
\* state is kept
MetadataEvent(m, state) ==
    [kind |-> "metadata", model_id |-> m, progress |-> NoRecord, state |-> state]

\* no snapshot held, nothing sent yet
NoItem == [kind |-> "none"]

\* the first event of a connection: {type: "snapshot", models, progress}
SnapshotEvent(M, P) == [kind |-> "snapshot", models |-> M, progress |-> P]

\* a connection slot not in use; pc is "closed", "opened" (the handler has
\* returned its StreamingResponse), "streaming" (the generator runs) or
\* "dropped" (the response was discarded before the generator ran)
NoStream ==
    [pc |-> "closed", subscribed |-> FALSE, queue |-> <<>>,
     snap |-> NoItem, out |-> NoItem, first |-> Null]

\* a bus that delivers nothing
PublishNone(S, events) == S

\* publish(event...): every subscribed queue gets the events, in order
Publish(S, events) ==
    [s \in DOMAIN S |->
        IF S[s].subscribed THEN [S[s] EXCEPT !.queue = @ \o events] ELSE S[s]]

\* subscribe_progress(): a new empty queue joins the subscribers
subscribe_progress(S, s) ==
    [S EXCEPT ![s].subscribed = TRUE, ![s].queue = <<>>]

\* unsubscribe_progress(queue): discards the queue, a no-op when it is not
\* subscribed
unsubscribe_progress(S, s) ==
    [S EXCEPT ![s].subscribed = FALSE, ![s].queue = <<>>]

\* get_all_progress(): a copy of the whole progress map
get_all_progress == progress

\* list_models(): the snapshots of every entry
list_models == models

\* ------------------------------------------------------- registry helpers
\* the ModelMetadata object a worker holds: the catalogue's entry while the
\* entry it was started for is still in _models, its own copy once remove_model
\* has popped that entry (a later start_download creates a new object)
Meta(w) ==
    IF workers[w].attached THEN models[workers[w].model] ELSE workers[w].snap

\* Task.cancel(): a task that has not run its first step never enters the
\* coroutine body; a task awaiting to_thread gets CancelledError at its next
\* step, and the executor drops the work item only if no thread has taken it
CancelWorker(wrec) ==
    IF wrec.task = "created" THEN FreeWorker
    ELSE IF wrec.task = "waiting"
    THEN [wrec EXCEPT !.task = "cancelling",
                      !.thread = IF @ = "submitted" THEN "none" ELSE @]
    ELSE wrec

\* the slot a new worker takes
FreeSlots == {w \in DOMAIN workers : workers[w].task = "free"}
NextSlot == CHOOSE w \in FreeSlots : \A v \in FreeSlots : w <= v

\* a start_download without the state check of lines 177-179
start_download_untracked(m) ==
    IF Has(tasks, m) THEN 409 ELSE 202

\* start_download, lines 174-179: the status the locked section ends with,
\* 409 from either ModelConflictError, 202 from the handler when it goes through
start_download_code(m) ==
    IF Has(tasks, m) THEN 409
    ELSE IF Has(models, m) /\ models[m].state = DOWNLOADING THEN 409
    ELSE 202

\* start_download, lines 177-190: the entry as accepted
AcceptedEntry(m, filename, checksum) ==
    [(IF Has(models, m) THEN models[m] ELSE NewMetadata) EXCEPT
        !.filename = filename,
        !.checksum = checksum,
        !.state = DOWNLOADING,
        !.active_path = Null,
        !.local_path = filename]

\* an activate_model without the file check of lines 215-216
activate_model_unchecked(m) ==
    IF ~Has(models, m) THEN 404
    ELSE IF models[m].state \notin {READY, ACTIVE} THEN 409
    ELSE 200

\* activate_model, lines 208-216: the status the call ends with
activate_model_code(m) ==
    IF ~Has(models, m) THEN 404
    ELSE IF models[m].state \notin {READY, ACTIVE} THEN 409
    ELSE IF models[m].local_path = Null
            \/ <<m, models[m].local_path>> \notin files THEN 409
    ELSE 200

\* an activate_model without the loop of lines 218-221
DemoteNone(M, m) == M

\* activate_model, lines 218-221: every other ACTIVE entry becomes READY
Demote(M, m) ==
    [x \in DOMAIN M |->
        IF M[x].state = ACTIVE /\ x # m
        THEN [M[x] EXCEPT !.state = READY, !.active_path = Null]
        ELSE M[x]]

\* an activate_model that demotes the other entries without clearing their
\* active_path
ActivatedKeepingPaths(M, m) ==
    [x \in DOMAIN M |->
        IF x = m THEN [M[x] EXCEPT !.state = ACTIVE, !.active_path = M[m].local_path]
        ELSE IF M[x].state = ACTIVE THEN [M[x] EXCEPT !.state = READY]
        ELSE M[x]]

\* activate_model, lines 218-224: the catalogue after a successful call
Activated(M, m) ==
    [Demote(M, m) EXCEPT ![m] = [@ EXCEPT !.state = ACTIVE,
                                          !.active_path = M[m].local_path]]

\* _mark_download_failed: the entry after the reset
FailedEntry(e) ==
    [e EXCEPT !.state = NOT_INSTALLED, !.active_path = Null, !.local_path = Null]

\* a _mark_download_failed without the _save of line 428
mark_download_failed_unsaved(m) ==
    IF ~Has(models, m)
    THEN UNCHANGED <<models, persisted, files>>
    ELSE /\ models' = [models EXCEPT ![m] = FailedEntry(@)]
         /\ files' = IF models[m].local_path # Null
                     THEN files \ {<<m, models[m].local_path>>}
                     ELSE files
         /\ persisted' = persisted

\* _mark_download_failed: catalogue, files and models.json after the call
mark_download_failed(m) ==
    IF ~Has(models, m)
    THEN UNCHANGED <<models, persisted, files>>
    ELSE /\ models' = [models EXCEPT ![m] = FailedEntry(@)]
         /\ files' = IF models[m].local_path # Null
                     THEN files \ {<<m, models[m].local_path>>}
                     ELSE files
         /\ persisted' = models'

\* _download_and_finalize, lines 353-362: the entry after a successful download
FinalizedEntry(stored, digest, local_path) ==
    [stored EXCEPT !.state = IF @ = ACTIVE THEN ACTIVE ELSE READY,
                   !.checksum = digest,
                   !.local_path = local_path]

\* _download_and_finalize, lines 364-372: the closing progress update
CompletedProgress(P, m) ==
    LET completed_bytes ==
            IF ~Has(P, m) THEN NoInt
            ELSE IF P[m].total # NoInt THEN P[m].total ELSE P[m].downloaded
    IN  update_progress(P, m, "completed", completed_bytes, NoInt, Null, NoInt)

\* the except clauses of _download_and_finalize: status, message and code
\* recorded for each way _download_file can fail
ErrorCode(kind) ==
    CASE kind = "transport" -> 502
      [] kind = "unauthorized" -> 403
      [] kind = "notfound" -> 404
      [] kind = "mismatch" -> 409
      [] OTHER -> 500

\* what requests.get can end with short of a 2xx response
ResponseErrors == {"transport", "unauthorized", "notfound", "exception"}

\* How a transfer fails upstream: requests.get raises (connect), the response
\* has a status of 400 or above, or iter_content raises in mid-stream.
Outcomes ==
    {[kind |-> "connect", status |-> 0], [kind |-> "stream", status |-> 0]}
        \cup {[kind |-> "status", status |-> st] : st \in 400..599}

\* _download_file, lines 446-455 and 465: what it raises for an outcome. Only
\* requests.get is inside the try of line 446; raise_for_status and
\* iter_content raise exceptions of requests, which are no ModelRegistryError
raised(outcome) ==
    IF outcome.kind = "connect" THEN "transport"
    ELSE IF outcome.kind = "stream" THEN "exception"
    ELSE IF outcome.status \in {401, 403} THEN "unauthorized"
    ELSE IF outcome.status = 404 THEN "notfound"
    ELSE "exception"

\* no transfer
NoFetch == [outcome |-> [kind |-> "none", status |-> 0], done |-> FALSE,
            error_code |-> NoInt]

\* _download_file fails and the except clause of _download_and_finalize that
\* takes the exception records its error_code
FetchFails ==
    /\ ~fetch.done
    /\ fetch' = [fetch EXCEPT !.done = TRUE,
                              !.error_code = ErrorCode(raised(fetch.outcome))]
    /\ UNCHANGED <<registryVars, workers, fsVars, calls, actPc, llmVars, running,
                   streams, parser, sandbox, auth, proc, progress_lock>>

FailedProgress(P, m, kind) ==
    update_progress(P, m, "error", NoInt, NoInt, kind, ErrorCode(kind))

CancelledProgress(P, m) ==
    update_progress(P, m, "cancelled", NoInt, NoInt, "Download cancelled", 499)


\* --------------------------------------------------------- start_download
\* POST /models/{model_id}/download reaches start_download, which first
\* awaits _ensure_remote_file_access on an executor thread
StartDownloadBegin(m) ==
    /\ running = "running"
    /\ IdleCalls # {}
    /\ calls' = [calls EXCEPT ![NextCall] = [model |-> m, stage |-> "probing"]]
    /\ UNCHANGED <<registryVars, workers, fsVars, actPc, llmVars, running, streams, surfaceVars>>

\* the statuses _ensure_remote_file_access fails with, lines 283-291
ProbeErrors == {403, 404, 502}

\* _ensure_remote_file_access raises: 403, 404 or 502, before the lock is taken
ProbeFail(c, code) ==
    /\ code \in ProbeErrors
    /\ calls[c].stage # "idle"
    /\ calls' = [calls EXCEPT ![c] = NoCall]
    /\ UNCHANGED <<registryVars, workers, fsVars, actPc, llmVars, running, streams, surfaceVars>>

\* start_download, lines 195-197: the events of seeding the record and of
\* setting its total
AcceptedEvents(m, remote_size) ==
    <<ProgressEvent(m, initialise_progress(progress, m)[m])>>
        \o (IF remote_size # NoInt /\ remote_size # 0
            THEN <<ProgressEvent(m, progress'[m])>> ELSE <<>>)

\* the probe returned remote_size; the locked section of start_download
StartDownloadCommit(c, filename, checksum, remote_size) ==
    LET m == calls[c].model
        w == NextSlot
        seeded == initialise_progress(progress, m)
    IN  /\ calls[c].stage # "idle"
        /\ IF start_download_code(m) = 409
           THEN /\ calls' = [calls EXCEPT ![c] = NoCall]
                /\ UNCHANGED <<registryVars, workers, fsVars, streams>>
           ELSE /\ FreeSlots # {}
                /\ models' = Put(models, m, AcceptedEntry(m, filename, checksum))
                /\ persisted' = models'
                /\ dirs' = dirs \cup {m}
                /\ files' = files
                /\ progress' = IF remote_size # NoInt /\ remote_size # 0
                               THEN update_progress(seeded, m, Null, NoInt,
                                                    remote_size, Null, NoInt)
                               ELSE seeded
                /\ workers' = [workers EXCEPT ![w] =
                                 [FreeWorker EXCEPT !.model = m, !.task = "created",
                                                    !.attached = TRUE]]
                /\ tasks' = Put(tasks, m, w)
                /\ calls' = [d \in DOMAIN calls |->
                               IF d = c THEN NoCall
                               ELSE IF calls[d].model = m
                               THEN [calls[d] EXCEPT !.stage = "raced"]
                               ELSE calls[d]]
                /\ streams' = Publish(streams, AcceptedEvents(m, remote_size))
        /\ UNCHANGED <<actPc, llmVars, running, surfaceVars>>

\* -------------------------------------------------------- download worker
\* first step of the task: _download_and_finalize up to await asyncio.to_thread
TaskStart(w) ==
    /\ workers[w].task = "created"
    /\ workers' = [workers EXCEPT ![w].task = "waiting", ![w].thread = "submitted"]
    /\ UNCHANGED <<registryVars, fsVars, calls, actPc, llmVars, running, streams, surfaceVars>>

\* _download_file, lines 431-440: runs on the executor thread
ThreadStart(w) ==
    LET m == workers[w].model
        meta == Meta(w)
    IN  /\ workers[w].thread = "submitted"
        /\ progress' = update_progress(progress, m, "downloading", NoInt, NoInt,
                                       Null, NoInt)
        /\ dirs' = dirs \cup {m}
        /\ workers' = [workers EXCEPT
                         ![w].thread = "started",
                         ![w].target = IF meta.local_path # Null
                                       THEN meta.local_path ELSE meta.filename]
        /\ streams' = Publish(streams, <<ProgressEvent(m, progress'[m])>>)
        /\ UNCHANGED <<models, persisted, tasks, files, calls, actPc, llmVars, running, surfaceVars>>

\* _download_file, lines 446-455: requests.get fails or answers with an error
ThreadResponseError(w, kind) ==
    /\ workers[w].thread = "started"
    /\ workers' = [workers EXCEPT
                     ![w] = Retire([@ EXCEPT !.thread = "finished", !.result = kind])]
    /\ UNCHANGED <<registryVars, fsVars, calls, actPc, llmVars, running, streams, surfaceVars>>

\* _download_file, lines 457-464: a 2xx response; total from Content-Length,
\* then the .part file is opened (the directory may be gone by now)
ThreadResponseOk(w, content_length) ==
    LET m == workers[w].model
    IN  /\ workers[w].thread = "started"
        /\ progress' = update_progress(progress, m, Null, NoInt,
                                       IF content_length = 0 THEN NoInt
                                       ELSE content_length,
                                       Null, NoInt)
        /\ IF m \in dirs
           THEN /\ files' = files \cup {<<m, PartOf(workers[w].target)>>}
                /\ workers' = [workers EXCEPT ![w].thread = "writing"]
           ELSE /\ files' = files
                /\ workers' = [workers EXCEPT
                                 ![w] = Retire([@ EXCEPT !.thread = "finished",
                                                         !.result = "exception"])]
        /\ streams' = Publish(streams, <<ProgressEvent(m, progress'[m])>>)
        /\ UNCHANGED <<models, persisted, tasks, dirs, calls, actPc, llmVars, running, surfaceVars>>

\* _download_file, lines 465-471: one chunk written and counted
ThreadChunk(w) ==
    /\ workers[w].thread = "writing"
    /\ workers[w].written < NumChunks
    /\ workers' = [workers EXCEPT ![w].written = @ + 1]
    /\ progress' = update_progress(progress, workers[w].model, Null,
                                   (workers[w].written + 1) * ChunkBytes,
                                   NoInt, Null, NoInt)
    /\ streams' = Publish(streams,
                          <<ProgressEvent(workers[w].model,
                                          progress'[workers[w].model])>>)
    /\ UNCHANGED <<models, persisted, tasks, fsVars, calls, actPc, llmVars, running, surfaceVars>>

\* _update_progress, lines 314-323, called for a chunk by the thread of the
\* worker: the lock is taken and a record that is missing is created
UpdateEnter(w) ==
    LET m == workers[w].model
    IN  /\ workers[w].thread = "writing"
        /\ workers[w].written < NumChunks
        /\ progress_lock = Unlocked
        /\ progress_lock' = w
        /\ progress' = IF Has(progress, m) THEN progress
                       ELSE Put(progress, m,
                                [status |-> "unknown",
                                 downloaded |-> (workers[w].written + 1) * ChunkBytes,
                                 total |-> NoInt, percent |-> 0,
                                 error |-> Null, error_code |-> NoInt])
        /\ UNCHANGED <<models, persisted, tasks, workers, fsVars, calls, actPc,
                       llmVars, running, streams, parser, sandbox, auth, proc,
                       fetch>>

\* _update_progress, lines 324-340: the record is looked up and written, and
\* the lock released. With the record gone, the lookup of line 324 raises
\* KeyError, which ends _download_file, when the pop came before it; when the
\* pop came after it the fields are written to a record that is no longer in
\* the map and the update is lost
UpdateWrite(w, raises) ==
    LET m == workers[w].model
    IN  /\ progress_lock = w
        /\ raises => ~Has(progress, m)
        /\ progress_lock' = Unlocked
        /\ IF Has(progress, m)
           THEN /\ progress' = update_progress(progress, m, Null,
                                               (workers[w].written + 1) * ChunkBytes,
                                               NoInt, Null, NoInt)
                /\ workers' = [workers EXCEPT ![w].written = @ + 1]
                /\ streams' = Publish(streams, <<ProgressEvent(m, progress'[m])>>)
           ELSE /\ workers' = [workers EXCEPT ![w] =
                                 IF raises
                                 THEN Retire([@ EXCEPT !.thread = "finished",
                                                       !.result = "exception"])
                                 ELSE [@ EXCEPT !.written = @ + 1]]
                /\ UNCHANGED <<progress, streams>>
        /\ UNCHANGED <<models, persisted, tasks, fsVars, calls, actPc, llmVars,
                       running, parser, sandbox, auth, proc, fetch>>

\* _download_file, line 465: iter_content raises in mid-stream
ThreadChunkFail(w) ==
    /\ workers[w].thread = "writing"
    /\ workers[w].written < NumChunks
    /\ workers' = [workers EXCEPT
                     ![w] = Retire([@ EXCEPT !.thread = "finished",
                                             !.result = "exception"])]
    /\ UNCHANGED <<registryVars, fsVars, calls, actPc, llmVars, running, streams, surfaceVars>>

\* _download_file, lines 473-474: os.replace and the digest of what was streamed
ThreadReplace(w, content) ==
    LET m == workers[w].model
        part == <<m, PartOf(workers[w].target)>>
    IN  /\ workers[w].thread = "writing"
        /\ workers[w].written = NumChunks
        /\ IF part \in files
           THEN /\ files' = (files \ {part}) \cup {<<m, workers[w].target>>}
                /\ workers' = [workers EXCEPT
                                 ![w] = Retire([@ EXCEPT !.thread = "finished",
                                                         !.result = Sha(content)])]
           ELSE /\ files' = files
                /\ workers' = [workers EXCEPT
                                 ![w] = Retire([@ EXCEPT !.thread = "finished",
                                                         !.result = "exception"])]
        /\ UNCHANGED <<registryVars, dirs, calls, actPc, llmVars, running, streams, surfaceVars>>

\* a failure that publishes its progress update only
FailureEventsProgressOnly(m) == <<ProgressEvent(m, progress'[m])>>

\* the events of a failed or cancelled download: the progress update of the
\* except clause, then _mark_download_failed's metadata delta when there is an
\* entry
FailureEvents(m) ==
    <<ProgressEvent(m, progress'[m])>>
        \o (IF Has(models, m) THEN <<MetadataEvent(m, NOT_INSTALLED)>> ELSE <<>>)

\* the events of a completed download: the metadata delta of lines 353-362
\* when there is an entry, then the progress update of lines 364-372
CompletionEvents(m) ==
    (IF Has(models, m) THEN <<MetadataEvent(m, models'[m].state)>> ELSE <<>>)
        \o <<ProgressEvent(m, progress'[m])>>

\* _download_and_finalize resumes with what _download_file returned or raised
TaskResume(w) ==
    LET m == workers[w].model
        r == workers[w].result
        meta == Meta(w)
    IN  /\ workers[w].task = "waiting"
        /\ workers[w].thread = "finished"
        /\ IF r \in ResponseErrors
           THEN /\ progress' = FailedProgress(progress, m, r)
                /\ mark_download_failed(m)
           ELSE IF meta.checksum # Null /\ r # meta.checksum
           THEN /\ progress' = FailedProgress(progress, m, "mismatch")
                /\ mark_download_failed(m)
           ELSE /\ models' = IF Has(models, m)
                             THEN [models EXCEPT ![m] =
                                     FinalizedEntry(@, r, meta.local_path)]
                             ELSE models
                /\ persisted' = IF Has(models, m) THEN models' ELSE persisted
                /\ files' = files
                /\ progress' = CompletedProgress(progress, m)
        /\ streams' = Publish(streams,
                              IF r \in ResponseErrors
                                 \/ (meta.checksum # Null /\ r # meta.checksum)
                              THEN FailureEvents(m) ELSE CompletionEvents(m))
        /\ tasks' = Pop(tasks, m)
        /\ workers' = [workers EXCEPT ![w] = FreeWorker]
        /\ UNCHANGED <<dirs, calls, actPc, llmVars, running, surfaceVars>>

\* _download_and_finalize, lines 373-381 and 410: the CancelledError handler
TaskCancelled(w) ==
    LET m == workers[w].model
    IN  /\ workers[w].task = "cancelling"
        /\ progress' = CancelledProgress(progress, m)
        /\ mark_download_failed(m)
        /\ streams' = Publish(streams, FailureEvents(m))
        /\ tasks' = Pop(tasks, m)
        /\ workers' = [workers EXCEPT ![w] = Retire([@ EXCEPT !.task = "done"])]
        /\ UNCHANGED <<dirs, calls, actPc, llmVars, running, surfaceVars>>

\* ----------------------------------------------------- generation manager
GGUF == "gguf"
TRANSFORMERS == "transformers"

\* Path.suffix of an artifact name
Suffix(f) == IF f = "m.gguf" THEN ".gguf" ELSE ".bin"

\* load_model, lines 128-133: the backend a path is loaded with (entries are
\* downloaded without tags)
model_type(f) == IF Suffix(f) = ".gguf" THEN GGUF ELSE TRANSFORMERS

\* a request slot of POST /chat/completions not in use
NoGen ==
    [pc |-> "idle", stream |-> FALSE, model_type |-> Null, code |-> 0,
     backend |-> "none", produced |-> 0, queue |-> <<>>, events |-> <<>>]

\* ------------------------------------------------------ POST /activate
\* activate_model handler, lines 401-413, and load_from_metadata, lines 97-102:
\* the status the request ends with before any model is touched, 0 if it goes on
\* to load
activate_request_code(m) ==
    IF ~Has(models, m) THEN 404
    ELSE IF models[m].state \notin {READY, ACTIVE} THEN 409
    ELSE LET path == IF models[m].active_path # Null
                     THEN models[m].active_path ELSE models[m].local_path
         IN  IF path = Null \/ <<m, path>> \notin files THEN 500 ELSE 0

\* the handler up to the await of the backend load in load_model: the model
\* loaded so far is unloaded first
ActivateBegin(m) ==
    /\ running = "running"
    /\ actPc[m] = "idle"
    /\ activate_request_code(m) = 0
    /\ actPc' = [actPc EXCEPT ![m] = "loading"]
    /\ llm_model' = Null
    /\ llm_model_id' = Null
    /\ llm_model_type' = Null
    /\ UNCHANGED genVars
    /\ UNCHANGED <<registryVars, workers, fsVars, calls, running, streams, surfaceVars>>

\* ModelRegistry.activate_model under the lock
activate_model(m) ==
    IF activate_model_code(m) = 200
    THEN /\ models' = Activated(models, m)
         /\ persisted' = models'
    ELSE UNCHANGED <<models, persisted>>

RECURSIVE DemotionEvents(_)
\* activate_model, lines 218-221: a metadata delta for every entry demoted
DemotionEvents(S) ==
    IF S = {} THEN <<>>
    ELSE LET x == CHOOSE y \in S : TRUE
         IN  <<MetadataEvent(x, READY)>> \o DemotionEvents(S \ {x})

\* the events of a successful activate_model: the demoted entries, then m
ActivationEvents(m) ==
    DemotionEvents({x \in DOMAIN models : x # m /\ models[x].state = ACTIVE})
        \o <<MetadataEvent(m, ACTIVE)>>

\* a handler that leaves the model loaded when the registry refuses the
\* activation
ActivateLoadDoneKeeping(m, loaded) ==
    /\ actPc[m] = "loading"
    /\ actPc' = [actPc EXCEPT ![m] = "idle"]
    /\ IF loaded
       THEN /\ activate_model(m)
            /\ llm_model' = m
            /\ llm_model_id' = m
            /\ llm_model_type' = IF Has(models, m) /\ models[m].local_path # Null
                                  THEN model_type(models[m].local_path)
                                  ELSE TRANSFORMERS
       ELSE UNCHANGED <<models, persisted, llm_model, llm_model_id, llm_model_type>>
    /\ UNCHANGED genVars
    /\ streams' = IF loaded /\ activate_model_code(m) = 200
                  THEN Publish(streams, ActivationEvents(m)) ELSE streams
    /\ UNCHANGED <<progress, tasks, workers, fsVars, calls, running, surfaceVars>>

\* the backend load ended: on success _model/_model_id are set and the handler
\* calls registry.activate_model, unloading again if the registry refuses
ActivateLoadDone(m, loaded) ==
    /\ actPc[m] = "loading"
    /\ actPc' = [actPc EXCEPT ![m] = "idle"]
    /\ IF loaded
       THEN /\ activate_model(m)
            /\ llm_model' = IF activate_model_code(m) = 200 THEN m ELSE Null
            /\ llm_model_id' = llm_model'
            /\ llm_model_type' = IF activate_model_code(m) = 200
                                  THEN model_type(models[m].local_path) ELSE Null
       ELSE UNCHANGED <<models, persisted, llm_model, llm_model_id, llm_model_type>>
    /\ UNCHANGED genVars
    /\ streams' = IF loaded /\ activate_model_code(m) = 200
                  THEN Publish(streams, ActivationEvents(m)) ELSE streams
    /\ UNCHANGED <<progress, tasks, workers, fsVars, calls, running, surfaceVars>>

\* ------------------------------------------------- DELETE /models/{id}
\* remove_model, lines 240-256: the artifact, every file of the directory and
\* the directory itself are deleted when the entry has a local_path
RemovedFiles(m) ==
    IF models[m].local_path = Null THEN files
    ELSE IF m \in dirs THEN {f \in files : f[1] # m}
    ELSE files \ {<<m, models[m].local_path>>}

RemovedDirs(m) ==
    IF models[m].local_path = Null THEN dirs ELSE dirs \ {m}

\* the event of remove_model: the snapshot of the entry removed
RemovalEvents(m) == <<MetadataEvent(m, models[m].state)>>

\* delete_model handler: get_metadata, remove_model, then unload_model when the
\* removed entry was ACTIVE
DeleteModel(m) ==
    LET known == Has(models, m)
        wasActive == known /\ models[m].state = ACTIVE
        cancelled == IF Has(tasks, m)
                     THEN [workers EXCEPT ![tasks[m]] = CancelWorker(@)]
                     ELSE workers
    IN  /\ running = "running"
        /\ workers' = [w \in DOMAIN workers |->
                         IF known /\ cancelled[w].model = m /\ cancelled[w].attached
                         THEN [cancelled[w] EXCEPT !.attached = FALSE,
                                                   !.snap = models[m]]
                         ELSE cancelled[w]]
        /\ models' = Pop(models, m)
        /\ progress' = Pop(progress, m)
        /\ tasks' = Pop(tasks, m)
        /\ IF known
           THEN /\ files' = RemovedFiles(m)
                /\ dirs' = RemovedDirs(m)
                /\ persisted' = models'
           ELSE UNCHANGED <<fsVars, persisted>>
        /\ llm_model' = IF wasActive THEN Null ELSE llm_model
        /\ llm_model_id' = IF wasActive THEN Null ELSE llm_model_id
        /\ llm_model_type' = IF wasActive THEN Null ELSE llm_model_type
        /\ UNCHANGED genVars
        /\ streams' = IF known THEN Publish(streams, RemovalEvents(m)) ELSE streams
        /\ UNCHANGED <<calls, actPc, running, surfaceVars>>

\* -------------------------------------------------- GET /models/stream
\* models_stream, lines 449-473 up to the return: the queue is subscribed, the
\* snapshot is taken, and the generator is handed to StreamingResponse unstarted
StreamOpen(s) ==
    /\ running = "running"
    /\ streams[s].pc = "closed"
    /\ ~streams[s].subscribed
    /\ streams' = [subscribe_progress(streams, s) EXCEPT
                     ![s].pc = "opened",
                     ![s].snap = SnapshotEvent(list_models, get_all_progress)]
    /\ UNCHANGED <<registryVars, workers, fsVars, calls, actPc, llmVars, running, surfaceVars>>

\* the response is discarded before the body is iterated (the client is gone
\* when the response starts): a generator that never ran has no finally to run
StreamDrop(s) ==
    /\ streams[s].pc = "opened"
    /\ streams' = [streams EXCEPT ![s].pc = "dropped", ![s].snap = NoItem]
    /\ UNCHANGED <<registryVars, workers, fsVars, calls, actPc, llmVars, running, surfaceVars>>

\* a generator that takes the snapshot when it starts
StreamStartLate(s) ==
    /\ streams[s].pc = "opened"
    /\ streams' = [streams EXCEPT
                     ![s].pc = "streaming",
                     ![s].out = SnapshotEvent(list_models, get_all_progress),
                     ![s].snap = NoItem,
                     ![s].first = IF @ = Null THEN "snapshot" ELSE @]
    /\ UNCHANGED <<registryVars, workers, fsVars, calls, actPc, llmVars, running, surfaceVars>>

\* event_stream, lines 454-460: the first step of the generator yields the
\* snapshot
StreamStart(s) ==
    /\ streams[s].pc = "opened"
    /\ streams' = [streams EXCEPT
                     ![s].pc = "streaming",
                     ![s].out = streams[s].snap,
                     ![s].snap = NoItem,
                     ![s].first = IF @ = Null THEN streams[s].snap.kind ELSE @]
    /\ UNCHANGED <<registryVars, workers, fsVars, calls, actPc, llmVars, running, surfaceVars>>

\* event_stream, lines 462-465: queue.get() returns the oldest event, which is
\* yielded
StreamNext(s) ==
    /\ streams[s].pc = "streaming"
    /\ streams[s].queue # <<>>
    /\ streams' = [streams EXCEPT
                     ![s].out = Head(streams[s].queue),
                     ![s].queue = Tail(@),
                     ![s].first = IF @ = Null THEN Head(streams[s].queue).kind
                                  ELSE @]
    /\ UNCHANGED <<registryVars, workers, fsVars, calls, actPc, llmVars, running, surfaceVars>>

\* event_stream, lines 466-471: 15 idle seconds, the client has disconnected,
\* the loop breaks and finally unsubscribes (a tick with the client still
\* there yields a keep-alive comment and changes nothing)
StreamDisconnect(s) ==
    /\ streams[s].pc = "streaming"
    /\ streams[s].queue = <<>>
    /\ streams' = [unsubscribe_progress(streams, s) EXCEPT
                     ![s].pc = "closed", ![s].out = NoItem, ![s].first = Null]
    /\ UNCHANGED <<registryVars, workers, fsVars, calls, actPc, llmVars, running, surfaceVars>>

\* event_stream, lines 470-471: the running generator is closed or cancelled
\* (at a yield or at the await of queue.get) and finally unsubscribes
StreamClose(s) ==
    /\ streams[s].pc = "streaming"
    /\ streams' = [unsubscribe_progress(streams, s) EXCEPT
                     ![s].pc = "closed", ![s].out = NoItem, ![s].first = Null]
    /\ UNCHANGED <<registryVars, workers, fsVars, calls, actPc, llmVars, running, surfaceVars>>

\* ---------------------------------------------------- the storage directory
\* the artifact of an entry is deleted from outside the process: what the
\* Path.exists() checks of activate_model and load_from_metadata are for
FileLost(m) ==
    /\ Has(models, m)
    /\ models[m].local_path # Null
    /\ <<m, models[m].local_path>> \in files
    /\ files' = files \ {<<m, models[m].local_path>>}
    /\ UNCHANGED <<registryVars, workers, dirs, calls, actPc, llmVars, running, streams, surfaceVars>>

\* ------------------------------------------------ POST /chat/completions
\* a generate that asks the catalogue for an ACTIVE entry instead of asking
\* the manager for a loaded model
generate_unchecked ==
    IF \A m \in DOMAIN models : models[m].state # ACTIVE THEN 503 ELSE 0

\* generate, lines 196-198: the status the check under the lifecycle lock ends
\* the request with, 0 if the request goes on
generate_code == IF llm_model = Null THEN 503 ELSE 0

ChunkEvent(n) == [type |-> "chunk", delta |-> n]
ResultEvent == [type |-> "result", delta |-> 0]
ErrorEvent == [type |-> "error", delta |-> 0]

\* what the producer puts after the last chunk: None on the queue of
\* _stream_gguf, the stop signal of the TextIteratorStreamer
EndOfStream == 0

\* chat_completions up to the first suspension of generate: the check, then
\* either the wait for the generation lock in _complete or the return of the
\* StreamingResponse over a generator not yet started
GenerateBegin(g, stream) ==
    /\ running = "running"
    /\ gens[g].pc = "idle"
    /\ gens' = [gens EXCEPT ![g] =
                   IF generate_code = 503
                   THEN [NoGen EXCEPT !.pc = "done", !.stream = stream, !.code = 503]
                   ELSE [NoGen EXCEPT !.pc = IF stream THEN "opened" ELSE "waiting",
                                      !.stream = stream,
                                      !.model_type = llm_model_type,
                                      !.code = IF stream THEN 200 ELSE 0]]
    /\ UNCHANGED <<registryVars, workers, fsVars, calls, actPc, llm_model,
                   llm_model_id, llm_model_type, generation_lock, running,
                   streams, surfaceVars>>

\* _complete, lines 285-289: the lock is taken and the backend call is handed
\* to a worker thread
CompleteBegin(g) ==
    /\ gens[g].pc = "waiting"
    /\ generation_lock = Unlocked
    /\ generation_lock' = g
    /\ gens' = [gens EXCEPT ![g].pc = "running", ![g].backend = "running"]
    /\ UNCHANGED <<registryVars, workers, fsVars, calls, actPc, llm_model,
                   llm_model_id, llm_model_type, running, streams, surfaceVars>>

\* the backend call returns its text or raises: the lock is released and the
\* handler answers 200 with the parsed result, or the exception leaves it (500)
CompleteEnd(g, ok) ==
    /\ gens[g].pc = "running"
    /\ generation_lock' = Unlocked
    /\ gens' = [gens EXCEPT
                   ![g].pc = "done",
                   ![g].backend = IF ok THEN "finished" ELSE "failed",
                   ![g].code = IF ok THEN 200 ELSE 500,
                   ![g].events = IF ok THEN <<ResultEvent>> ELSE <<>>]
    /\ UNCHANGED <<registryVars, workers, fsVars, calls, actPc, llm_model,
                   llm_model_id, llm_model_type, running, streams, surfaceVars>>

\* _streaming_response, lines 299-307: the generator runs, takes the lock and
\* starts the producer (the thread of _stream_gguf, the executor job of
\* _stream_transformers)
StreamingBegin(g) ==
    /\ gens[g].pc = "opened"
    /\ generation_lock = Unlocked
    /\ generation_lock' = g
    /\ gens' = [gens EXCEPT ![g].pc = "streaming", ![g].backend = "running"]
    /\ UNCHANGED <<registryVars, workers, fsVars, calls, actPc, llm_model,
                   llm_model_id, llm_model_type, running, streams, surfaceVars>>

\* _stream_transformers, lines 345-356, raises ModelRuntimeError before any
\* backend call (no tokenizer, no torch): the lock is released and event_stream,
\* lines 358-361, yields the error event
StreamingUnavailable(g) ==
    /\ gens[g].pc = "opened"
    /\ gens[g].model_type = TRANSFORMERS
    /\ generation_lock = Unlocked
    /\ gens' = [gens EXCEPT ![g].pc = "done", ![g].events = @ \o <<ErrorEvent>>]
    /\ UNCHANGED <<registryVars, workers, fsVars, calls, actPc, llm_model,
                   llm_model_id, llm_model_type, generation_lock, running,
                   streams, surfaceVars>>

\* the producer of a streaming generation emits its next piece of text
BackendChunk(g) ==
    /\ gens[g].stream
    /\ gens[g].backend = "running"
    /\ gens[g].produced < MaxChunks
    /\ gens' = [gens EXCEPT ![g].produced = @ + 1,
                            ![g].queue = Append(@, gens[g].produced + 1)]
    /\ UNCHANGED <<registryVars, workers, fsVars, calls, actPc, llm_model,
                   llm_model_id, llm_model_type, generation_lock, running,
                   streams, surfaceVars>>

\* the producer of a streaming generation returns: _produce of _stream_gguf,
\* lines 386-394, puts None; model.generate ends the streamer
BackendEnd(g) ==
    /\ gens[g].stream
    /\ gens[g].backend = "running"
    /\ gens' = [gens EXCEPT ![g].backend = "finished",
                            ![g].queue = Append(@, EndOfStream)]
    /\ UNCHANGED <<registryVars, workers, fsVars, calls, actPc, llm_model,
                   llm_model_id, llm_model_type, generation_lock, running,
                   streams, surfaceVars>>

\* the backend raises in the producer: the finally of _produce, lines 393-394,
\* still puts None on the queue of _stream_gguf and the exception ends the
\* thread; the streamer of _stream_transformers is never ended and the
\* exception stays in the executor future
BackendFail(g) ==
    /\ gens[g].stream
    /\ gens[g].backend = "running"
    /\ gens' = [gens EXCEPT ![g].backend = "failed",
                            ![g].queue = IF gens[g].model_type = GGUF
                                         THEN Append(@, EndOfStream) ELSE @]
    /\ UNCHANGED <<registryVars, workers, fsVars, calls, actPc, llm_model,
                   llm_model_id, llm_model_type, generation_lock, running,
                   streams, surfaceVars>>

\* lines 401-405 / 374-378 and 303-309, then event_stream 356-357: the oldest
\* piece of text is taken and sent as a chunk event
StreamingChunk(g) ==
    /\ gens[g].pc = "streaming"
    /\ gens[g].queue # <<>>
    /\ Head(gens[g].queue) # EndOfStream
    /\ gens' = [gens EXCEPT ![g].queue = Tail(@),
                            ![g].events = Append(@, ChunkEvent(Head(gens[g].queue)))]
    /\ UNCHANGED <<registryVars, workers, fsVars, calls, actPc, llm_model,
                   llm_model_id, llm_model_type, generation_lock, running,
                   streams, surfaceVars>>

\* _stream_gguf, lines 402-407, reads None: the loop ends, the thread is
\* joined, the lock is released and lines 313-314 yield the result event,
\* whether the producer returned or raised
StreamingResultGguf(g) ==
    /\ gens[g].pc = "streaming"
    /\ gens[g].model_type = GGUF
    /\ gens[g].queue # <<>>
    /\ Head(gens[g].queue) = EndOfStream
    /\ generation_lock' = Unlocked
    /\ gens' = [gens EXCEPT ![g].pc = "done", ![g].queue = Tail(@),
                            ![g].events = Append(@, ResultEvent)]
    /\ UNCHANGED <<registryVars, workers, fsVars, calls, actPc, llm_model,
                   llm_model_id, llm_model_type, running, streams, surfaceVars>>

\* _stream_transformers, lines 374-376: streamer.__next__ raises StopIteration
\* on the executor thread, which cannot be set on the future awaited.  Either
\* the future is never resolved and the generator stays at line 374 holding
\* the lock (hung), or the await raises an error that is no StopIteration and
\* no ModelRuntimeError: the finally awaits the producer, the lock is released
\* and the stream ends without another event
StreamingEndTransformers(g, hangs) ==
    /\ gens[g].pc = "streaming"
    /\ gens[g].model_type = TRANSFORMERS
    /\ gens[g].queue # <<>>
    /\ Head(gens[g].queue) = EndOfStream
    /\ generation_lock' = IF hangs THEN generation_lock ELSE Unlocked
    /\ gens' = [gens EXCEPT ![g].pc = IF hangs THEN "hung" ELSE "done",
                            ![g].queue = Tail(@)]
    /\ UNCHANGED <<registryVars, workers, fsVars, calls, actPc, llm_model,
                   llm_model_id, llm_model_type, running, streams, surfaceVars>>

\* the client disconnects and the response task is cancelled inside the
\* generator.  _stream_gguf, lines 406-407, joins the producer thread on the
\* event loop, which runs nothing else until the producer is through;
\* _stream_transformers, lines 379-380, awaits the producer's future, an
\* await the cancelled scope interrupts again.  Either way the lock is
\* released and nothing more is sent
StreamingCancelled(g) ==
    /\ gens[g].pc \in {"streaming", "hung"}
    /\ generation_lock' = Unlocked
    /\ gens' = [gens EXCEPT
                   ![g].pc = "done",
                   ![g].backend = IF gens[g].model_type = GGUF /\ @ = "running"
                                  THEN "finished" ELSE @,
                   ![g].queue = <<>>]
    /\ UNCHANGED <<registryVars, workers, fsVars, calls, actPc, llm_model,
                   llm_model_id, llm_model_type, running, streams, surfaceVars>>

\* a producer nobody listens to any more goes on to its end
BackendOrphan(g) ==
    /\ gens[g].pc = "done"
    /\ gens[g].backend = "running"
    /\ gens' = [gens EXCEPT ![g].backend = "finished"]
    /\ UNCHANGED <<registryVars, workers, fsVars, calls, actPc, llm_model,
                   llm_model_id, llm_model_type, generation_lock, running,
                   streams, surfaceVars>>

\* the response is complete and the slot is free for the next request
GenerateEnd(g) ==
    /\ gens[g].pc = "done"
    /\ gens[g].backend # "running"
    /\ gens' = [gens EXCEPT ![g] = NoGen]
    /\ UNCHANGED <<registryVars, workers, fsVars, calls, actPc, llm_model,
                   llm_model_id, llm_model_type, generation_lock, running,
                   streams, surfaceVars>>

\* ----------------------------------------------------------- action parser
\* A text is a sequence of tokens: a letter, white space, the fence (three backquotes), the
\* word actions, and the punctuation, quotes and words of JSON.
Fence == "fence"
marker == <<Fence, "actions">>
end_marker == <<Fence>>

\* str.strip(): leading and trailing white space removed
RECURSIVE LStrip(_)
LStrip(t) == IF t # <<>> /\ Head(t) = " " THEN LStrip(Tail(t)) ELSE t

RECURSIVE RStrip(_)
RStrip(t) ==
    IF t # <<>> /\ t[Len(t)] = " " THEN RStrip(SubSeq(t, 1, Len(t) - 1)) ELSE t

Strip(t) == RStrip(LStrip(t))

\* str.find(pat, from): the first position at or after from where pat occurs,
\* 0 when there is none (Python's -1; positions count from 1 here)
Find(t, pat, from) ==
    LET hits == {i \in from..(Len(t) - Len(pat) + 1) :
                    SubSeq(t, i, i + Len(pat) - 1) = pat}
    IN  IF hits = {} THEN 0 ELSE CHOOSE i \in hits : \A j \in hits : i <= j

\* the elements an actions list is made of: a number, or an object with or
\* without a type (a string or a number), with or without a payload (an
\* object, an object holding the fence as a string, the empty object, a number),
\* with or without a further key
Entry(shape, type, payload, extra) ==
    [shape |-> shape, type |-> type, payload |-> payload, extra |-> extra]

ActionEntries ==
    {Entry("number", "absent", "absent", FALSE),
     Entry("object", "string", "object", FALSE),
     Entry("object", "string", "fenced", FALSE),
     Entry("object", "string", "empty", FALSE),
     Entry("object", "string", "absent", FALSE),
     Entry("object", "string", "number", FALSE),
     Entry("object", "absent", "object", FALSE),
     Entry("object", "number", "object", FALSE),
     Entry("object", "string", "object", TRUE)}

\* the lists of at most MaxActions elements
ActionLists ==
    UNION {[1..n -> ActionEntries] : n \in 0..MaxActions}

RECURSIVE Join(_)
\* the token sequences of parts, separated by commas
Join(parts) ==
    IF parts = <<>> THEN <<>>
    ELSE IF Len(parts) = 1 THEN parts[1]
    ELSE parts[1] \o <<",">> \o Join(Tail(parts))

Quoted(word) == <<"\"", word, "\"">>

\* json.dumps of one element
DumpEntry(e) ==
    IF e.shape = "number" THEN <<"1">>
    ELSE LET type == IF e.type = "absent" THEN <<>>
                     ELSE <<Quoted("type") \o <<":">>
                              \o (IF e.type = "string" THEN Quoted("open")
                                  ELSE <<"1">>)>>
             value == CASE e.payload = "object" ->
                              <<"{">> \o Quoted("path") \o <<":">>
                                  \o Quoted("a") \o <<"}">>
                        [] e.payload = "fenced" ->
                              <<"{">> \o Quoted("path") \o <<":">>
                                  \o Quoted(Fence) \o <<"}">>
                        [] e.payload = "empty" -> <<"{", "}">>
                        [] OTHER -> <<"1">>
             payload == IF e.payload = "absent" THEN <<>>
                        ELSE <<Quoted("payload") \o <<":">> \o value>>
             extra == IF e.extra THEN <<Quoted("id") \o <<":", "1">>>> ELSE <<>>
         IN  <<"{">> \o Join(type \o payload \o extra) \o <<"}">>

\* json.dumps of an actions list
Dump(list) ==
    <<"[">> \o Join([i \in 1..Len(list) |-> DumpEntry(list[i])]) \o <<"]">>

\* json.loads: the list a text is the JSON of; a text that is the JSON of none
\* raises JSONDecodeError
Loadable(t) == {list \in ActionLists : Dump(list) = t}

\* a _parse_actions that skips an element without a payload
CleanedStrict(list) ==
    SelectSeq(list, LAMBDA e : /\ e.shape = "object"
                               /\ e.type = "string"
                               /\ e.payload \in {"object", "fenced", "empty"}
                               /\ ~e.extra)

\* _parse_actions, lines 452-459: the elements kept, each reduced to its type
\* and its payload ({} when it has none)
Cleaned(list) ==
    LET kept == SelectSeq(list, LAMBDA e : /\ e.shape = "object"
                                          /\ e.type = "string"
                                          /\ e.payload \in {"object", "fenced",
                                                            "empty", "absent"})
    IN  [i \in 1..Len(kept) |->
            Entry("object", "string",
                  IF kept[i].payload = "absent" THEN "empty" ELSE kept[i].payload,
                  FALSE)]

\* what the parser returns for the actions: None, or a non-empty list
NoActions == [none |-> TRUE, list |-> <<>>]
SomeActions(list) == [none |-> FALSE, list |-> list]

\* _parse_actions: None for a text that is no JSON and for a list of which
\* nothing is kept
parse_actions(payload) ==
    IF Loadable(payload) = {} THEN NoActions
    ELSE LET cleaned == Cleaned(CHOOSE list \in Loadable(payload) : TRUE)
         IN  IF cleaned = <<>> THEN NoActions ELSE SomeActions(cleaned)

\* a message that keeps the closing fence
RestFromFence(t, end) == SubSeq(t, end, Len(t))

\* _extract_actions, line 440: the text after the closing fence
Rest(t, end) == SubSeq(t, end + Len(end_marker), Len(t))

\* _extract_actions
extract_actions(t) ==
    LET start == Find(t, marker, 1)
        after_marker == start + Len(marker)
        end == Find(t, end_marker, after_marker)
    IN  IF start = 0 \/ end = 0
        THEN [message |-> Strip(t), actions |-> NoActions]
        ELSE [message |-> Strip(SubSeq(t, 1, start - 1) \o Rest(t, end)),
              actions |-> parse_actions(Strip(SubSeq(t, after_marker, end - 1)))]

\* the message followed by a fenced actions block holding the list
Compose(message, list) ==
    message \o marker \o <<" ">> \o Dump(list) \o <<" ">> \o end_marker

\* the messages the model produces
MessageTokens == {"a", " ", Fence}
Messages == UNION {[1..n -> MessageTokens] : n \in 0..MaxMessage}

\* nothing given to the parser
NoParse ==
    [message |-> <<>>, list |-> <<>>, done |-> FALSE,
     out |-> [message |-> <<>>, actions |-> NoActions]]

\* the output of a generation is parsed: generate, line 209, and
\* _streaming_response, line 313
ExtractActions ==
    /\ ~parser.done
    /\ parser' = [parser EXCEPT
                     !.done = TRUE,
                     !.out = extract_actions(Compose(parser.message, parser.list))]
    /\ UNCHANGED <<registryVars, workers, fsVars, calls, actPc, llmVars, running,
                   streams, sandbox, auth, proc, fetch, progress_lock>>

\* ------------------------------------------------------------ path sandbox
\* A path is the sequence of its components below / ; the working directory
\* is /w, the registry's base directory /m, and /o lies outside both.
\* create_app, line 311: the canonical roots, sorted
allowed_roots == << <<"m">>, <<"w">> >>

\* the components a request can name
Names == {"..", "w", "m", "o", "d", "l", "k"}

\* the directories there are
Dirs == { <<>>, <<"w">>, <<"w", "d">>, <<"m">>, <<"o">>, <<"o", "d">> }

\* where symbolic links are
LinkPlaces == { <<"w", "l">>, <<"w", "k">>, <<"m", "l">> }

\* what a link can point to: outside, into a root, into its own directory by
\* a relative path, outside by a relative path, to the l beside it (itself,
\* for a link that is an l)
Targets ==
    {[abs |-> TRUE, parts |-> <<"o">>],
     [abs |-> TRUE, parts |-> <<"w", "d">>],
     [abs |-> FALSE, parts |-> <<"d">>],
     [abs |-> FALSE, parts |-> <<"..", "o", "d">>],
     [abs |-> FALSE, parts |-> <<"l">>]}

\* Path.relative_to succeeds: parent is a prefix of path, component-wise
is_subpath(path, parent) ==
    /\ Len(parent) <= Len(path)
    /\ SubSeq(path, 1, Len(parent)) = parent

Parent(path) == IF path = <<>> THEN <<>> ELSE SubSeq(path, 1, Len(path) - 1)

\* os.path.abspath: .. is cancelled against the component before it, no link
\* is followed
RECURSIVE normpath(_, _)
normpath(cur, rest) ==
    IF rest = <<>> THEN cur
    ELSE IF Head(rest) = ".." THEN normpath(Parent(cur), Tail(rest))
    ELSE normpath(Append(cur, Head(rest)), Tail(rest))

\* os.path.realpath, not strict: the components of rest are walked from the
\* canonical directory cur; .. steps to the parent, a link is replaced by the
\* resolution of its target, a name that does not exist is kept. At a link
\* met while it is being resolved (active) the walk stops, and what is left
\* is returned as it stands, joined to the link's path.
RECURSIVE realpath(_, _, _)
realpath(cur, rest, active) ==
    IF rest = <<>> THEN [ok |-> TRUE, path |-> cur]
    ELSE IF Head(rest) = ".." THEN realpath(Parent(cur), Tail(rest), active)
    ELSE LET next == Append(cur, Head(rest))
         IN  IF next \notin DOMAIN sandbox.links
             THEN realpath(next, Tail(rest), active)
             ELSE IF next \in active
             THEN [ok |-> FALSE, path |-> next \o Tail(rest)]
             ELSE LET target == sandbox.links[next]
                      to == realpath(IF target.abs THEN <<>> ELSE cur,
                                     target.parts, active \cup {next})
                  IN  IF to.ok THEN realpath(to.path, Tail(rest), active)
                      ELSE [ok |-> FALSE, path |-> to.path \o Tail(rest)]

\* the links the system follows in one lookup before it gives up with ELOOP
MaxSymlinks == 40

\* stat fails with ELOOP: the lookup of rest from directory cur follows more
\* links than it may; a name that does not exist ends the lookup (ENOENT)
RECURSIVE eloop(_, _, _)
eloop(cur, rest, fuel) ==
    IF rest = <<>> THEN FALSE
    ELSE IF Head(rest) = ".." THEN eloop(Parent(cur), Tail(rest), fuel)
    ELSE LET next == Append(cur, Head(rest))
         IN  IF next \in DOMAIN sandbox.links
             THEN fuel = 0
                  \/ eloop(IF sandbox.links[next].abs THEN <<>> ELSE cur,
                           sandbox.links[next].parts \o Tail(rest), fuel - 1)
             ELSE next \in Dirs /\ eloop(next, Tail(rest), fuel)

\* (root / candidate).resolve(), candidate.resolve(): Path.resolve takes the
\* absolute form of what realpath returns and calls stat on it, raising
\* RuntimeError if that reports a loop, passing over any other failure
resolve(root, parts) ==
    LET real == realpath(root, parts, {})
        path == normpath(<<>>, real.path)
    IN  [ok |-> real.ok \/ ~eloop(<<>>, path, MaxSymlinks), path |-> path]

\* the first root under which root / candidate resolves into the root itself,
\* and the first root at which resolve raises
FirstFit(parts) ==
    LET fits == {i \in 1..Len(allowed_roots) :
                    /\ resolve(allowed_roots[i], parts).ok
                    /\ is_subpath(resolve(allowed_roots[i], parts).path,
                                  allowed_roots[i])}
        loops == {i \in 1..Len(allowed_roots) : ~resolve(allowed_roots[i], parts).ok}
        Min(S) == CHOOSE i \in S : \A j \in S : i <= j
    IN  [fit |-> IF fits = {} THEN 0 ELSE Min(fits),
         loop |-> IF loops = {} THEN 0 ELSE Min(loops)]

\* _resolve_allowed_path, lines 151-167: the status (500 for the RuntimeError
\* no handler catches) and the path returned
resolve_allowed_path(abs, parts) ==
    LET first == FirstFit(parts)
        resolved == IF abs THEN resolve(<<>>, parts)
                    ELSE IF first.fit # 0 /\ (first.loop = 0 \/ first.fit < first.loop)
                    THEN resolve(allowed_roots[first.fit], parts)
                    ELSE IF first.loop # 0 THEN [ok |-> FALSE, path |-> <<>>]
                    ELSE resolve(allowed_roots[1], parts)
    IN  IF ~resolved.ok THEN [code |-> 500, path |-> <<>>]
        ELSE IF \E i \in 1..Len(allowed_roots) :
                    is_subpath(resolved.path, allowed_roots[i])
        THEN [code |-> 200, path |-> resolved.path]
        ELSE [code |-> 403, path |-> <<>>]

\* no path given to the resolver
NoResolve ==
    [links |-> [x \in {} |-> [abs |-> TRUE, parts |-> <<>>]], abs |-> FALSE,
     parts |-> <<>>, done |-> FALSE, out |-> [code |-> 0, path |-> <<>>]]

\* action_open, line 477, action_read, line 502, and action_run, line 534,
\* resolve the path of the request
ResolvePath ==
    /\ ~sandbox.done
    /\ sandbox' = [sandbox EXCEPT
                      !.done = TRUE,
                      !.out = resolve_allowed_path(sandbox.abs, sandbox.parts)]
    /\ UNCHANGED <<registryVars, workers, fsVars, calls, actPc, llmVars, running,
                   streams, parser, auth, proc, fetch, progress_lock>>

\* ------------------------------------------------------- authentication
\* some of the routes of create_app
Routes == {"/health", "/config", "/status", "/models", "/chat/completions"}

\* config.token: absent, empty, set
Tokens == {Null, "", "t1"}

\* the Authorization header of a request: absent, the token, something else
Headers == {Null, "t1", "t2", "Bearer t1"}

\* The layers a request goes through, outermost first: the framework puts a
\* function registered with app.middleware("http") inside its
\* ServerErrorMiddleware and outside its ExceptionMiddleware, where the
\* handlers of HTTPException are.
Layers ==
    <<"ServerErrorMiddleware", "authenticate_request", "ExceptionMiddleware",
      "router">>

LayerOf(name) == CHOOSE i \in 1..Len(Layers) : Layers[i] = name

\* the status of the response when HTTPException(status) is raised in layer
\* at: that of the exception if an ExceptionMiddleware encloses the layer,
\* else the 500 of ServerErrorMiddleware
Raised(at, status) ==
    IF LayerOf("ExceptionMiddleware") < LayerOf(at) THEN status ELSE 500

\* no request
NoRequest ==
    [pc |-> "idle", token |-> Null, header |-> Null, route |-> "/health",
     status |-> 0, handled |-> FALSE]

\* lines 319-323: the token is set and the header is not equal to it
Unauthorized == auth.token \notin {Null, ""} /\ auth.header # auth.token

\* authenticate_request, lines 317-325, up to call_next
AuthenticateRequest ==
    /\ auth.pc = "idle"
    /\ auth' = IF Unauthorized
               THEN [auth EXCEPT !.pc = "done",
                                 !.status = Raised("authenticate_request", 401)]
               ELSE [auth EXCEPT !.pc = "call_next"]
    /\ UNCHANGED <<registryVars, workers, fsVars, calls, actPc, llmVars, running,
                   streams, parser, sandbox, proc, fetch, progress_lock>>

\* call_next, line 324: the handler of the route runs and answers
RouteHandler ==
    /\ auth.pc = "call_next"
    /\ auth' = [auth EXCEPT !.pc = "done", !.handled = TRUE, !.status = 200]
    /\ UNCHANGED <<registryVars, workers, fsVars, calls, actPc, llmVars, running,
                   streams, parser, sandbox, proc, fetch, progress_lock>>

\* ----------------------------------------------------- POST /actions/run
KidIds == 1..MaxKids

\* a process the shell has started: whether it runs, and whether it holds the
\* write ends of the pipes it inherited (it does unless it redirected its
\* output)
NoKid == [state |-> "none", pipes |-> FALSE]

\* no command run
NoProcess ==
    [pc |-> "idle", shell |-> FALSE, main |-> "none",
     kids |-> [k \in {} |-> NoKid], code |-> 0]

\* process.communicate() returns: the process has exited and both pipes have
\* reached end of file, which they do when their last writer is gone
Communicated ==
    /\ proc.main = "exited"
    /\ \A k \in DOMAIN proc.kids :
          ~(proc.kids[k].state = "running" /\ proc.kids[k].pipes)

\* lines 543-562: create_subprocess_exec or create_subprocess_shell
RunSpawn(shell) ==
    /\ proc.pc = "idle"
    /\ proc' = [proc EXCEPT !.pc = "waiting", !.shell = shell, !.main = "running"]
    /\ UNCHANGED <<registryVars, workers, fsVars, calls, actPc, llmVars, running,
                   streams, parser, sandbox, auth, fetch, progress_lock>>

\* the shell starts a command, which inherits the pipes or redirects its output
ShellFork(k, redirected) ==
    /\ proc.shell
    /\ proc.main = "running"
    /\ proc.kids[k].state = "none"
    /\ proc' = [proc EXCEPT !.kids[k] = [state |-> "running", pipes |-> ~redirected]]
    /\ UNCHANGED <<registryVars, workers, fsVars, calls, actPc, llmVars, running,
                   streams, parser, sandbox, auth, fetch, progress_lock>>

\* a command the shell started ends
KidExit(k) ==
    /\ proc.kids[k].state = "running"
    /\ proc' = [proc EXCEPT !.kids[k].state = "exited"]
    /\ UNCHANGED <<registryVars, workers, fsVars, calls, actPc, llmVars, running,
                   streams, parser, sandbox, auth, fetch, progress_lock>>

\* the process ends by itself
MainExit ==
    /\ proc.main = "running"
    /\ proc' = [proc EXCEPT !.main = "exited"]
    /\ UNCHANGED <<registryVars, workers, fsVars, calls, actPc, llmVars, running,
                   streams, parser, sandbox, auth, fetch, progress_lock>>

\* lines 564-567 and 575-586: communicate returns in time
RunComplete ==
    /\ proc.pc = "waiting"
    /\ Communicated
    /\ proc' = [proc EXCEPT !.pc = "done", !.code = 200]
    /\ UNCHANGED <<registryVars, workers, fsVars, calls, actPc, llmVars, running,
                   streams, parser, sandbox, auth, fetch, progress_lock>>

\* lines 568-569: the wait times out and process.kill() sends SIGKILL to the
\* process, and to nothing else
RunTimeout ==
    /\ proc.pc = "waiting"
    /\ ~Communicated
    /\ proc' = [proc EXCEPT !.pc = "killed", !.main = "exited"]
    /\ UNCHANGED <<registryVars, workers, fsVars, calls, actPc, llmVars, running,
                   streams, parser, sandbox, auth, fetch, progress_lock>>

\* lines 570-571: the second communicate returns and 504 is raised
RunTimedOut ==
    /\ proc.pc = "killed"
    /\ Communicated
    /\ proc' = [proc EXCEPT !.pc = "done", !.code = 504]
    /\ UNCHANGED <<registryVars, workers, fsVars, calls, actPc, llmVars, running,
                   streams, parser, sandbox, auth, fetch, progress_lock>>


\* ------------------------------------------------------------- shutdown
NoRequestInFlight ==
    /\ \A c \in DOMAIN calls : calls[c].stage = "idle"
    /\ \A m \in ModelIds : actPc[m] = "idle"

\* shutdown_registry, line 608: LLMManager.shutdown awaits its cancelled
\* monitor task (the download workers can step meanwhile) and unloads the model
ShutdownLLM ==
    /\ running = "running"
    /\ NoRequestInFlight
    /\ running' = "stopping"
    /\ llm_model' = Null
    /\ llm_model_id' = Null
    /\ llm_model_type' = Null
    /\ UNCHANGED <<registryVars, workers, fsVars, calls, actPc, streams, genVars,
                   surfaceVars>>

\* shutdown_registry, line 609: ModelRegistry.shutdown cancels and forgets
\* every tracked task
shutdown ==
    /\ running = "stopping"
    /\ running' = "stopped"
    /\ workers' = [w \in DOMAIN workers |->
                     IF \E m \in DOMAIN tasks : tasks[m] = w
                     THEN CancelWorker(workers[w]) ELSE workers[w]]
    /\ tasks' = Empty
    /\ UNCHANGED <<models, persisted, progress, fsVars, calls, actPc, llmVars, streams,
                   surfaceVars>>

\* a new process: create_app builds a ModelRegistry, whose _load reads
\* models.json, and a fresh LLMManager; the files on disk are what they were
Restart ==
    /\ models' = persisted
    /\ progress' = Empty
    /\ tasks' = Empty
    /\ workers' = [w \in DOMAIN workers |-> FreeWorker]
    /\ calls' = [c \in DOMAIN calls |-> NoCall]
    /\ actPc' = [m \in ModelIds |-> "idle"]
    /\ llm_model' = Null
    /\ llm_model_id' = Null
    /\ llm_model_type' = Null
    /\ generation_lock' = Unlocked
    /\ gens' = [g \in DOMAIN gens |-> NoGen]
    /\ running' = "running"
    /\ streams' = [s \in DOMAIN streams |-> NoStream]
    /\ UNCHANGED <<persisted, fsVars, surfaceVars>>

\* ------------------------------------------------------------------- Init
InitRegistry(ids, slots, callers, conns) ==
    /\ models = Empty
    /\ persisted = Empty
    /\ progress = Empty
    /\ tasks = Empty
    /\ workers = [w \in slots |-> FreeWorker]
    /\ dirs = {}
    /\ files = {}
    /\ calls = [c \in callers |-> NoCall]
    /\ actPc = [m \in ids |-> "idle"]
    /\ llm_model = Null
    /\ llm_model_id = Null
    /\ running = "running"
    /\ streams = [s \in conns |-> NoStream]
    /\ llm_model_type = Null
    /\ generation_lock = Unlocked
    /\ gens = [g \in {} |-> NoGen]

\* the registry and the generation manager as constructed, no request at the
\* action surface
InitOf(ids, slots, callers, conns) ==
    /\ InitRegistry(ids, slots, callers, conns)
    /\ parser = NoParse
    /\ sandbox = NoResolve
    /\ auth = NoRequest
    /\ proc = NoProcess
    /\ fetch = NoFetch
    /\ progress_lock = Unlocked

Init == InitOf(Models, Single, Single, {})

InitStale == InitOf({"alpha"}, WorkerIds, Single, {})

InitCalls == InitOf({"alpha"}, Single, CallIds, {})

\* the sizes the probe and the Content-Length header report: the bytes streamed
Sizes == {NumChunks * ChunkBytes}

\* the sizes they can report at all: none, zero, less than what is streamed
\* (the length of an encoded body) or the bytes streamed
SizesSeen == Sizes \cup {NoInt, 0, 1}

Next ==
    \/ \E m \in ModelIds : StartDownloadBegin(m)
    \/ \E c \in DOMAIN calls, code \in ProbeErrors : ProbeFail(c, code)
    \/ \E c \in DOMAIN calls, f \in Filenames, cs \in Expected, size \in Sizes :
          StartDownloadCommit(c, f, cs, size)
    \/ \E w \in DOMAIN workers : TaskStart(w)
    \/ \E w \in DOMAIN workers : ThreadStart(w)
    \/ \E w \in DOMAIN workers, kind \in ResponseErrors : ThreadResponseError(w, kind)
    \/ \E w \in DOMAIN workers, cl \in Sizes : ThreadResponseOk(w, cl)
    \/ \E w \in DOMAIN workers : ThreadChunk(w)
    \/ \E w \in DOMAIN workers : ThreadChunkFail(w)
    \/ \E w \in DOMAIN workers, c \in Contents : ThreadReplace(w, c)
    \/ \E w \in DOMAIN workers : TaskResume(w)
    \/ \E w \in DOMAIN workers : TaskCancelled(w)
    \/ \E m \in ModelIds : ActivateBegin(m)
    \/ \E m \in ModelIds, loaded \in BOOLEAN : ActivateLoadDone(m, loaded)
    \/ \E m \in ModelIds : DeleteModel(m)
    \/ \E m \in ModelIds : FileLost(m)
    \/ ShutdownLLM
    \/ shutdown
    \/ Restart

Spec == Init /\ [][Next]_vars

SpecStale == InitStale /\ [][Next]_vars

SpecCalls == InitCalls /\ [][Next]_vars

\* one model, one worker, one call, every size the remote side can report
NextSizes ==
    \/ Next
    \/ \E c \in DOMAIN calls, f \in Filenames, cs \in Expected, size \in SizesSeen :
          StartDownloadCommit(c, f, cs, size)
    \/ \E w \in DOMAIN workers, cl \in SizesSeen : ThreadResponseOk(w, cl)

SpecSizes == InitOf({"alpha"}, Single, Single, {}) /\ [][NextSizes]_vars

\* a step of a download worker: of the task on the event loop or of its
\* thread in the executor
WorkerStep ==
    \E w \in DOMAIN workers :
        \/ TaskStart(w)
        \/ ThreadStart(w)
        \/ \E kind \in ResponseErrors : ThreadResponseError(w, kind)
        \/ \E cl \in Sizes : ThreadResponseOk(w, cl)
        \/ ThreadChunk(w)
        \/ ThreadChunkFail(w)
        \/ \E c \in Contents : ThreadReplace(w, c)
        \/ TaskResume(w)
        \/ TaskCancelled(w)

\* one model, one worker: the event loop runs every task that can run and
\* every transfer of the executor comes to its end; the requests, the shutdown
\* and the restart come when the outside world sends them
SpecLive ==
    /\ InitOf({"alpha"}, Single, Single, {})
    /\ [][Next]_vars
    /\ WF_vars(WorkerStep)

\* one model and one worker whose thread takes the progress lock for the
\* update of a chunk in two steps; every other operation that takes the lock
\* runs when the lock is free, and remove_model, which does not take it, runs
\* at any time
NextProgress ==
    \/ \E m \in ModelIds : StartDownloadBegin(m)
    \/ \E c \in DOMAIN calls, code \in ProbeErrors : ProbeFail(c, code)
    \/ \E c \in DOMAIN calls, f \in Filenames, cs \in Expected, size \in Sizes :
          progress_lock = Unlocked /\ StartDownloadCommit(c, f, cs, size)
    \/ \E w \in DOMAIN workers : TaskStart(w)
    \/ \E w \in DOMAIN workers : progress_lock = Unlocked /\ ThreadStart(w)
    \/ \E w \in DOMAIN workers, kind \in ResponseErrors : ThreadResponseError(w, kind)
    \/ \E w \in DOMAIN workers, cl \in Sizes :
          progress_lock = Unlocked /\ ThreadResponseOk(w, cl)
    \/ \E w \in DOMAIN workers : UpdateEnter(w)
    \/ \E w \in DOMAIN workers, raises \in BOOLEAN : UpdateWrite(w, raises)
    \/ \E w \in DOMAIN workers : progress_lock # w /\ ThreadChunkFail(w)
    \/ \E w \in DOMAIN workers, c \in Contents : ThreadReplace(w, c)
    \/ \E w \in DOMAIN workers : progress_lock = Unlocked /\ TaskResume(w)
    \/ \E w \in DOMAIN workers : progress_lock = Unlocked /\ TaskCancelled(w)
    \/ \E m \in ModelIds : DeleteModel(m)

SpecProgress == InitOf({"alpha"}, Single, Single, {}) /\ [][NextProgress]_vars

\* the resolver is given a path, absolute or relative, in a directory tree
\* with links in the roots
InitSandbox ==
    /\ InitRegistry({}, {}, {}, {})
    /\ parser = NoParse
    /\ sandbox \in {[NoResolve EXCEPT !.links = l, !.abs = a, !.parts = q] :
                       l \in [LinkPlaces -> Targets], a \in BOOLEAN,
                       q \in UNION {[1..n -> Names] : n \in 0..MaxDepth}}
    /\ auth = NoRequest
    /\ proc = NoProcess
    /\ fetch = NoFetch
    /\ progress_lock = Unlocked

SpecSandbox == InitSandbox /\ [][ResolvePath]_vars

\* one command is run, directly or by a shell
InitRun ==
    /\ InitRegistry({}, {}, {}, {})
    /\ parser = NoParse
    /\ sandbox = NoResolve
    /\ auth = NoRequest
    /\ proc = [NoProcess EXCEPT !.kids = [k \in KidIds |-> NoKid]]
    /\ fetch = NoFetch
    /\ progress_lock = Unlocked

NextRun ==
    \/ \E shell \in BOOLEAN : RunSpawn(shell)
    \/ \E k \in KidIds, redirected \in BOOLEAN : ShellFork(k, redirected)
    \/ \E k \in KidIds : KidExit(k)
    \/ MainExit
    \/ RunComplete
    \/ RunTimeout
    \/ RunTimedOut

SpecRun == InitRun /\ [][NextRun]_vars

\* one request to an application configured with or without a token
InitAuth ==
    /\ InitRegistry({}, {}, {}, {})
    /\ parser = NoParse
    /\ sandbox = NoResolve
    /\ auth \in {[NoRequest EXCEPT !.token = t, !.header = h, !.route = r] :
                    t \in Tokens, h \in Headers, r \in Routes}
    /\ proc = NoProcess
    /\ fetch = NoFetch
    /\ progress_lock = Unlocked

NextAuth == AuthenticateRequest \/ RouteHandler

SpecAuth == InitAuth /\ [][NextAuth]_vars

\* one transfer fails, in each way it can
InitFetch ==
    /\ InitRegistry({}, {}, {}, {})
    /\ parser = NoParse
    /\ sandbox = NoResolve
    /\ auth = NoRequest
    /\ proc = NoProcess
    /\ fetch \in {[NoFetch EXCEPT !.outcome = o] : o \in Outcomes}
    /\ progress_lock = Unlocked

SpecFetch == InitFetch /\ [][FetchFails]_vars

\* the artifact names of the two backends
BackendFilenames == {"m.bin", "m.gguf"}

\* a registry constructed over the models.json and the storage directory of an
\* earlier run: one entry, READY, its artifact on disk
InitGen ==
    \E f \in BackendFilenames :
        /\ models = [m \in {"alpha"} |->
                       [NewMetadata EXCEPT !.state = READY, !.filename = f,
                                           !.checksum = Sha("c1"), !.local_path = f]]
        /\ persisted = models
        /\ progress = Empty
        /\ tasks = Empty
        /\ workers = [w \in Single |-> FreeWorker]
        /\ dirs = {"alpha"}
        /\ files = {<<"alpha", f>>}
        /\ calls = [c \in Single |-> NoCall]
        /\ actPc = [m \in {"alpha"} |-> "idle"]
        /\ llm_model = Null
        /\ llm_model_id = Null
        /\ running = "running"
        /\ streams = [s \in {} |-> NoStream]
        /\ llm_model_type = Null
        /\ generation_lock = Unlocked
        /\ gens = [g \in GenIds |-> NoGen]
        /\ parser = NoParse
        /\ sandbox = NoResolve
        /\ auth = NoRequest
        /\ proc = NoProcess
        /\ fetch = NoFetch
        /\ progress_lock = Unlocked

\* the parser is given the text composed of a message and an actions list
InitParse ==
    /\ InitRegistry({}, {}, {}, {})
    /\ parser \in {[NoParse EXCEPT !.message = m, !.list = l] :
                      m \in Messages, l \in ActionLists}
    /\ sandbox = NoResolve
    /\ auth = NoRequest
    /\ proc = NoProcess
    /\ fetch = NoFetch
    /\ progress_lock = Unlocked

SpecParse == InitParse /\ [][ExtractActions]_vars

NextGen ==
    \/ \E m \in ModelIds : ActivateBegin(m)
    \/ \E m \in ModelIds, loaded \in BOOLEAN : ActivateLoadDone(m, loaded)
    \/ \E m \in ModelIds : DeleteModel(m)
    \/ \E g \in DOMAIN gens, stream \in BOOLEAN : GenerateBegin(g, stream)
    \/ \E g \in DOMAIN gens : CompleteBegin(g)
    \/ \E g \in DOMAIN gens, ok \in BOOLEAN : CompleteEnd(g, ok)
    \/ \E g \in DOMAIN gens : StreamingBegin(g)
    \/ \E g \in DOMAIN gens : StreamingUnavailable(g)
    \/ \E g \in DOMAIN gens : BackendChunk(g)
    \/ \E g \in DOMAIN gens : BackendEnd(g)
    \/ \E g \in DOMAIN gens : BackendFail(g)
    \/ \E g \in DOMAIN gens : StreamingChunk(g)
    \/ \E g \in DOMAIN gens : StreamingResultGguf(g)
    \/ \E g \in DOMAIN gens, hangs \in BOOLEAN : StreamingEndTransformers(g, hangs)
    \/ \E g \in DOMAIN gens : StreamingCancelled(g)
    \/ \E g \in DOMAIN gens : BackendOrphan(g)
    \/ \E g \in DOMAIN gens : GenerateEnd(g)

SpecGen == InitGen /\ [][NextGen]_vars

\* every subscribed queue has room for the events of one more step
QueueRoom ==
    \A s \in DOMAIN streams :
        streams[s].subscribed => Len(streams[s].queue) + 2 <= MaxQueue

\* one model and its events on the GET /models/stream connections; a producer
\* steps only while the queues have room
NextBus ==
    \/ QueueRoom /\ Next
    \/ Restart
    \/ \E s \in DOMAIN streams : StreamOpen(s)
    \/ \E s \in DOMAIN streams : StreamDrop(s)
    \/ \E s \in DOMAIN streams : StreamStart(s)
    \/ \E s \in DOMAIN streams : StreamNext(s)
    \/ \E s \in DOMAIN streams : StreamDisconnect(s)
    \/ \E s \in DOMAIN streams : StreamClose(s)

SpecBus == InitOf({"alpha"}, Single, Single, StreamIds) /\ [][NextBus]_vars

\* every queue has been drained
QueuesEmpty == \A s \in DOMAIN streams : streams[s].queue = <<>>

\* two workers of one model and a subscriber: the downloads, the removals that
\* cancel them and the delivery of their events (no activation, no restart); a
\* producer steps only when the subscriber has caught up
NextBusStale ==
    \/ /\ QueuesEmpty
       /\ \/ \E m \in ModelIds : StartDownloadBegin(m)
          \/ \E c \in DOMAIN calls, f \in Filenames, cs \in Expected,
                size \in Sizes : StartDownloadCommit(c, f, cs, size)
          \/ \E w \in DOMAIN workers : TaskStart(w)
          \/ \E w \in DOMAIN workers : ThreadStart(w)
          \/ \E w \in DOMAIN workers, cl \in Sizes : ThreadResponseOk(w, cl)
          \/ \E w \in DOMAIN workers : ThreadChunk(w)
          \/ \E w \in DOMAIN workers, c \in Contents : ThreadReplace(w, c)
          \/ \E w \in DOMAIN workers : TaskResume(w)
          \/ \E w \in DOMAIN workers : TaskCancelled(w)
          \/ \E m \in ModelIds : DeleteModel(m)
    \/ \E s \in DOMAIN streams : StreamOpen(s)
    \/ \E s \in DOMAIN streams : StreamStart(s)
    \/ \E s \in DOMAIN streams : StreamNext(s)

SpecBusStale ==
    InitOf({"alpha"}, WorkerIds, Single, StreamIds) /\ [][NextBusStale]_vars

\* ================================================================= claims
ActiveEntries == {m \in DOMAIN models : models[m].state = ACTIVE}

\* C1: in every reachable state at most one catalogue entry has state ACTIVE
C1_AtMostOneActive == Cardinality(ActiveEntries) <= 1

\* C1 witness: two installed entries, one ACTIVE and loaded, the other READY
C1_Witness ==
    \E m \in DOMAIN models, x \in DOMAIN models :
        /\ m # x
        /\ models[m].state = ACTIVE
        /\ models[x].state = READY
        /\ llm_model = m

\* a worker is live while its thread fetches or writes bytes
LiveThreads(m) ==
    {w \in DOMAIN workers :
        workers[w].model = m /\ workers[w].thread \in {"started", "writing"}}

\* C2: for every model id at most one download worker is live at any moment,
\* and a finishing worker never untracks a newer one
C2_OneLiveWorker == \A m \in ModelIds : Cardinality(LiveThreads(m)) <= 1

\* C3: outside the window of an activate request in flight (a delete is one
\* step), the generation manager has a model loaded iff some entry is ACTIVE
C3_LoadedIffActive ==
    (running = "running" /\ \A m \in ModelIds : actPc[m] = "idle")
        => ((llm_model # Null) <=> (ActiveEntries # {}))

\* C4: a model id without a catalogue entry (removed, not started again) has
\* no progress record and no file under its directory
C4_RemovedLeavesNothing ==
    \A m \in ModelIds :
        ~Has(models, m) =>
            /\ ~Has(progress, m)
            /\ \A f \in files : f[1] # m

\* a download worker of m exists: its task has not ended
LiveTasks(m) ==
    {w \in DOMAIN workers :
        workers[w].model = m /\ workers[w].task \in {"created", "waiting", "cancelling"}}

\* C5: every entry in state DOWNLOADING has a live download worker
C5_DownloadingHasWorker ==
    \A m \in DOMAIN models :
        models[m].state = DOWNLOADING => LiveTasks(m) # {}

\* C6: the checksum a successful download stored on an entry (the entry is
\* READY or ACTIVE) never changes while the entry exists
C6_ChecksumImmutable ==
    [][\A m \in DOMAIN models :
          (models[m].state \in {READY, ACTIVE} /\ m \in DOMAIN models')
              => models'[m].checksum = models[m].checksum]_vars

AllowedTransitions ==
    {<<NOT_INSTALLED, DOWNLOADING>>, <<DOWNLOADING, READY>>,
     <<DOWNLOADING, NOT_INSTALLED>>, <<READY, ACTIVE>>, <<ACTIVE, READY>>}

\* C7: every change of an entry's state is one of the allowed transitions
C7_OnlyAllowedTransitions ==
    [][\A m \in DOMAIN models :
          (m \in DOMAIN models' /\ models'[m].state # models[m].state)
              => <<models[m].state, models'[m].state>> \in AllowedTransitions]_vars

\* the locked section of start_download runs for call c and accepts it
Accepts(c) ==
    /\ calls[c].stage # "idle"
    /\ calls'[c].stage = "idle"
    /\ Has(tasks', calls[c].model)
    /\ tasks' # tasks

Activable(m) ==
    /\ Has(models, m)
    /\ models[m].state \in {READY, ACTIVE}
    /\ models[m].local_path # Null
    /\ <<m, models[m].local_path>> \in files

\* C9: activate_model(m) succeeds only for a READY or ACTIVE entry whose file
\* exists; an unknown m fails with 404, any other failure is 409, and a failed
\* call changes no entry (no ACTIVE entry is demoted)
C9_ActivateContract ==
    [][\A m \in ModelIds :
          ActivateLoadDone(m, TRUE) =>
            /\ activate_model_code(m) =
                 (IF ~Has(models, m) THEN 404
                  ELSE IF Activable(m) THEN 200 ELSE 409)
            /\ Activable(m) => /\ models'[m].state = ACTIVE
                               /\ models'[m].active_path = models[m].local_path
            /\ ~Activable(m) => /\ models' = models
                                /\ persisted' = persisted]_vars

\* C9 witness: a load is in flight for a model whose entry cannot be activated
\* any more while another entry is ACTIVE
C9_Witness ==
    \E m \in ModelIds, x \in DOMAIN models :
        /\ x # m
        /\ actPc[m] = "loading"
        /\ ~Activable(m)
        /\ models[x].state = ACTIVE

FailureCodes == {400, 403, 404, 409, 499, 502, 500}

\* C10: a download that has ended (no worker of the model is left) without
\* success has a progress record of status error or cancelled with a failure
\* code and a message, and its entry, if any, is NOT_INSTALLED without paths,
\* as persisted
C10_FailedDownloadRecorded ==
    \A m \in DOMAIN progress :
        (\A w \in DOMAIN workers : workers[w].model # m) =>
            \/ progress[m].status = "completed"
            \/ /\ progress[m].status \in {"error", "cancelled"}
               /\ progress[m].error_code \in FailureCodes
               /\ progress[m].error # Null
               /\ Has(models, m) =>
                    /\ models[m].state = NOT_INSTALLED
                    /\ models[m].active_path = Null
                    /\ models[m].local_path = Null
                    /\ persisted = models

\* the last download of m is over: no task and no thread of it is left
DownloadOver(m) ==
    /\ LiveTasks(m) = {}
    /\ \A w \in DOMAIN workers :
          workers[w].model = m => workers[w].thread \in {"none", "finished"}

\* C11: once a download of m has ended in failure or cancellation, no file is
\* left in the directory of m, neither the artifact nor the .part file
C11_NoFileAfterFailure ==
    \A m \in ModelIds :
        (/\ Has(progress, m)
         /\ progress[m].status \in {"error", "cancelled"}
         /\ DownloadOver(m))
            => \A f \in files : f[1] # m

\* C12: once the cancellation of a download (by remove_model or shutdown) has
\* been handled, its worker reads and writes no further byte and makes no
\* further progress update, no .part file of the model is left, and the
\* progress record, if there is one, ends as cancelled with code 499
C12_CancelledWorkerStops ==
    [][\A w \in DOMAIN workers :
          /\ workers[w].task = "done" =>
                /\ ~ThreadStart(w)
                /\ \A cl \in Sizes : ~ThreadResponseOk(w, cl)
                /\ ~ThreadChunk(w)
                /\ \A c \in Contents : ~ThreadReplace(w, c)
          /\ TaskCancelled(w) =>
                /\ <<workers[w].model, PartOf(workers[w].target)>> \notin files'
                /\ progress'[workers[w].model].status = "cancelled"
                /\ progress'[workers[w].model].error_code = 499]_vars

\* the worker's thread returned the digest of what it streamed
Digests == {Sha(c) : c \in Contents}

\* C13: an entry accepted with an expected checksum becomes READY (or ACTIVE)
\* only with that checksum as the digest of the streamed bytes; a worker whose
\* digest differs from the expected checksum it carries records error 409 and
\* leaves the entry NOT_INSTALLED
C13_ChecksumVerified ==
    [][/\ \A m \in DOMAIN models :
             (/\ m \in DOMAIN models'
              /\ models[m].state = DOWNLOADING
              /\ models[m].checksum # Null
              /\ models'[m].state \in {READY, ACTIVE})
                 => models'[m].checksum = models[m].checksum
       /\ \A w \in DOMAIN workers :
             (/\ TaskResume(w)
              /\ workers[w].result \in Digests
              /\ Meta(w).checksum # Null
              /\ workers[w].result # Meta(w).checksum)
                 => /\ progress'[workers[w].model].status = "error"
                    /\ progress'[workers[w].model].error_code = 409
                    /\ Has(models, workers[w].model)
                          => models'[workers[w].model].state = NOT_INSTALLED]_vars

\* C14: in every progress record percent is round(100 * downloaded / total, 2)
\* when total is a positive integer and null when total is unknown (null or 0)
C14_PercentOfTotal ==
    \A m \in DOMAIN progress :
        LET p == progress[m]
        IN  IF p.total # NoInt /\ p.total > 0
            THEN p.percent = Percent(p.downloaded, p.total)
            ELSE p.percent = NoInt

\* C15: within one download (the record is not seeded anew by the step) the
\* downloaded field of a progress record never decreases, the update that sets
\* status completed included
C15_DownloadedMonotonic ==
    [][\A m \in DOMAIN progress :
          (Has(progress', m) /\ progress'[m].status # "queued")
              => progress'[m].downloaded >= progress[m].downloaded]_vars

\* the events a step appended to the queue of connection s
NewEvents(s) ==
    SubSeq(streams'[s].queue, Len(streams[s].queue) + 1, Len(streams'[s].queue))

\* connection s is subscribed before and after the step, which is no delivery
Listening(s) ==
    /\ streams[s].subscribed
    /\ streams'[s].subscribed
    /\ Len(streams'[s].queue) >= Len(streams[s].queue)

Mutated(m) ==
    /\ Has(progress', m)
    /\ ~Has(progress, m) \/ progress'[m] # progress[m]

FailsDownload(m) ==
    \E w \in DOMAIN workers :
        /\ workers[w].model = m
        /\ \/ TaskCancelled(w)
           \/ /\ TaskResume(w)
              /\ \/ workers[w].result \in ResponseErrors
                 \/ /\ Meta(w).checksum # Null
                    /\ workers[w].result # Meta(w).checksum

C19_SnapshotFirst ==
    [][\A s \in DOMAIN streams :
          /\ streams'[s].first \in {Null, "snapshot"}
          /\ StreamOpen(s) =>
                streams'[s].snap = SnapshotEvent(models, progress)
          /\ (streams[s].pc = "opened" /\ streams'[s].pc = "opened")
                => streams'[s].snap = streams[s].snap
          /\ StreamStart(s) => streams'[s].out = streams[s].snap
          /\ StreamNext(s) => streams[s].first = "snapshot"]_vars

\* C19 witness: a connection has delivered its snapshot, which a download
\* accepted since the connection was opened has outdated, and holds the events
\* of that download
C19_Witness ==
    \E s \in DOMAIN streams :
        /\ streams[s].pc = "streaming"
        /\ streams[s].out.kind = "snapshot"
        /\ streams[s].out.progress # progress
        /\ streams[s].queue # <<>>

\* C20: a connection that has ended has no queue subscribed, so that with every
\* connection ended no subscriber is left
C20_EndedUnsubscribed ==
    \A s \in DOMAIN streams :
        streams[s].pc \in {"closed", "dropped"} => ~streams[s].subscribed

\* C21: a generate call made while no model is loaded, blocking or streaming,
\* ends with status 503 without taking the generation lock, without a backend
\* call and without a response event
C21_NotLoadedFails ==
    [][\A g \in DOMAIN gens, stream \in BOOLEAN :
          (GenerateBegin(g, stream) /\ llm_model = Null) =>
              /\ gens'[g].pc = "done"
              /\ gens'[g].code = 503
              /\ gens'[g].backend = "none"
              /\ gens'[g].events = <<>>
              /\ generation_lock' = generation_lock]_vars

\* C21 witness: a blocking and a streaming request have both been refused
\* with 503, no model loaded and the entry removed
C21_Witness ==
    \E g \in DOMAIN gens, h \in DOMAIN gens :
        /\ gens[g].code = 503 /\ gens[g].stream
        /\ gens[h].code = 503 /\ ~gens[h].stream
        /\ llm_model = Null
        /\ models = Empty

\* the generations whose backend call is executing
Executing == {g \in DOMAIN gens : gens[g].backend = "running"}

\* C22: at any moment at most one backend generation is executing
C22_OneGeneration == Cardinality(Executing) <= 1

\* the events of type result or error
Terminals(events) ==
    {i \in 1..Len(events) : events[i].type \in {"result", "error"}}

\* the step ends the streaming generation g of itself, the client still there
StreamEnds(g) ==
    \/ StreamingUnavailable(g)
    \/ StreamingResultGguf(g)
    \/ \E hangs \in BOOLEAN : StreamingEndTransformers(g, hangs)

\* C23: the chunk events of a streaming generation are delivered in the order
\* the backend produced them, and a stream that ends has delivered exactly one
\* terminal event (result or error), as its last event
C23_StreamOrder ==
    [][\A g \in DOMAIN gens :
          /\ \A i \in 1..Len(gens'[g].events) :
                gens'[g].events[i].type = "chunk" => gens'[g].events[i].delta = i
          /\ StreamEnds(g) =>
                Terminals(gens'[g].events) = {Len(gens'[g].events)}]_vars

\* C24: a streaming generation whose backend raised ends with an error event
\* and without a result event
C24_BackendErrorInBand ==
    [][\A g \in DOMAIN gens :
          (StreamEnds(g) /\ gens[g].backend = "failed") =>
              /\ gens'[g].events # <<>>
              /\ gens'[g].events[Len(gens'[g].events)] = ErrorEvent
              /\ \A i \in 1..Len(gens'[g].events) :
                    gens'[g].events[i] # ResultEvent]_vars

\* a text without the fence token
FenceFree(t) == \A i \in 1..Len(t) : t[i] # Fence

WellFormed(e) ==
    /\ e.shape = "object"
    /\ e.type = "string"
    /\ e.payload \in {"object", "fenced", "empty"}
    /\ ~e.extra

Canonical(path) ==
    /\ \A i \in 1..Len(path) : path[i] # ".."
    /\ \A i \in 1..Len(path) : SubSeq(path, 1, i) \notin DOMAIN sandbox.links

\* the location the input names from directory from, links followed; none
\* if the walk meets a loop
Location(from) == realpath(from, sandbox.parts, {})

\* the location is somewhere and outside every root
Outside(loc) ==
    /\ loc.ok
    /\ \A i \in 1..Len(allowed_roots) : ~is_subpath(loc.path, allowed_roots[i])

\* C26: a path the resolver returns is canonical and lies within a root; an
\* absolute input whose canonical location is outside every root, and a
\* relative input whose location from every root is, is rejected with 403
C26_SandboxContained ==
    sandbox.done =>
        /\ sandbox.out.code = 200 =>
              /\ Canonical(sandbox.out.path)
              /\ \E i \in 1..Len(allowed_roots) :
                    is_subpath(sandbox.out.path, allowed_roots[i])
        /\ (sandbox.abs /\ Outside(Location(<<>>))) => sandbox.out.code = 403
        /\ (~sandbox.abs /\ \A i \in 1..Len(allowed_roots) :
                                Outside(Location(allowed_roots[i])))
              => sandbox.out.code = 403

\* a process the request started is running
SpawnedRunning ==
    \/ proc.main = "running"
    \/ \E k \in DOMAIN proc.kids : proc.kids[k].state = "running"

\* C27: once a command that exceeded its timeout has been answered with 504,
\* neither the process nor a command its shell started is running
C27_TimeoutKillsAll == (proc.pc = "done" /\ proc.code = 504) => ~SpawnedRunning

\* C28: a request answered while a token is configured and its Authorization
\* header is not the token has status 401 and its handler has not run; any
\* other request answered has had its handler run
C28_TokenGuardsEveryRoute ==
    auth.pc = "done" =>
        IF auth.token \notin {Null, ""} /\ auth.header # auth.token
        THEN auth.status = 401 /\ ~auth.handled
        ELSE auth.handled

\* C29: the step of the shutdown that releases the loaded model finds no
\* download worker tracked (they were cancelled and forgotten before), and
\* when the shutdown has completed no download worker is live or tracked
C29_CancelThenRelease ==
    [][/\ (running = "running" /\ running' = "stopping" /\ llm_model # Null)
            => tasks = Empty
       /\ (running # "stopped" /\ running' = "stopped")
            => /\ tasks' = Empty
               /\ \A m \in ModelIds : LiveTasks(m)' = {}]_vars

\* C30: in every state of the registry, the active_path of an entry is its
\* local_path if the entry is ACTIVE and is null otherwise
C30_ActivePathFollowsState ==
    \A m \in DOMAIN models :
        models[m].active_path =
            IF models[m].state = ACTIVE THEN models[m].local_path ELSE Null

\* C31: a successful activate_model(m) is one step: after it m is ACTIVE with
\* active_path = local_path and is the only ACTIVE entry, every other entry
\* that was ACTIVE is READY with active_path null and otherwise as it was,
\* every remaining entry is unchanged, and models.json holds the same result
C31_ActivateAtomic ==
    [][\A m \in ModelIds :
          (ActivateLoadDone(m, TRUE) /\ activate_model_code(m) = 200) =>
              /\ DOMAIN models' = DOMAIN models
              /\ models'[m] = [models[m] EXCEPT !.state = ACTIVE,
                                                !.active_path = models[m].local_path]
              /\ \A x \in DOMAIN models \ {m} :
                    models'[x] = IF models[x].state = ACTIVE
                                 THEN [models[x] EXCEPT !.state = READY,
                                                        !.active_path = Null]
                                 ELSE models[x]
              /\ {x \in DOMAIN models' : models'[x].state = ACTIVE} = {m}
              /\ persisted' = models']_vars

\* C31 witness: an entry has been activated while another was ACTIVE: it is
\* the one ACTIVE entry, loaded, the other is READY with its artifact and no
\* active_path, and models.json says the same
C31_Witness ==
    \E m \in DOMAIN models, x \in DOMAIN models :
        /\ x # m
        /\ models[m].state = ACTIVE
        /\ models[m].active_path = models[m].local_path
        /\ models[m].local_path # Null
        /\ models[x].state = READY
        /\ models[x].active_path = Null
        /\ <<x, models[x].local_path>> \in files
        /\ persisted = models
        /\ llm_model = m
        /\ \A y \in ModelIds : actPc[y] = "idle"

\* C32: the error_code recorded for a failed transfer is 403 for a response
\* status 401 or 403, 404 for 404, the upstream status for any other status
\* of 400 or above, and 502 for a transport error
C32_ErrorCodeFollowsUpstream ==
    fetch.done =>
        fetch.error_code =
            IF fetch.outcome.kind # "status" THEN 502
            ELSE IF fetch.outcome.status \in {401, 403} THEN 403
            ELSE fetch.outcome.status

\* an object that contains a string type and an object payload
TypedWithPayload(e) ==
    /\ e.shape = "object"
    /\ e.type = "string"
    /\ e.payload \in {"object", "fenced", "empty"}

\* an object that contains a string type and an object payload or no payload
TypedWithoutBadPayload(e) ==
    /\ e.shape = "object"
    /\ e.type = "string"
    /\ e.payload \in {"object", "fenced", "empty", "absent"}

\* the text of an actions block that reaches the parser whole
ParsedWhole ==
    /\ parser.done
    /\ FenceFree(parser.message)
    /\ FenceFree(Dump(parser.list))

\* C33 as stated: the elements returned are those of the array that are
\* objects containing a string type and an object payload, in order, every
\* other element is skipped, and the result is null when none is kept
C33_KeepsTypedWithPayload ==
    ParsedWhole =>
        LET kept == SelectSeq(parser.list, TypedWithPayload)
        IN  /\ parser.out.actions.none <=> kept = <<>>
            /\ Len(parser.out.actions.list) = Len(kept)
            /\ \A i \in 1..Len(kept) :
                  /\ parser.out.actions.list[i].type = kept[i].type
                  /\ parser.out.actions.list[i].payload = kept[i].payload

\* C33 amended: an element is kept if it is an object that contains a string
\* type and whose payload is an object or is missing, and is returned as its
\* type and its payload, the empty object when the payload is missing; every
\* other element is skipped, and the result is null when none is kept
C33_KeepsTypedDefaultPayload ==
    ParsedWhole =>
        LET kept == SelectSeq(parser.list, TypedWithoutBadPayload)
        IN  /\ parser.out.actions.none <=> kept = <<>>
            /\ Len(parser.out.actions.list) = Len(kept)
            /\ \A i \in 1..Len(kept) :
                  /\ parser.out.actions.list[i].shape = "object"
                  /\ parser.out.actions.list[i].type = kept[i].type
                  /\ parser.out.actions.list[i].payload =
                        IF kept[i].payload = "absent" THEN "empty"
                        ELSE kept[i].payload
                  /\ ~parser.out.actions.list[i].extra

\* C33 witness: of an array of an object without a payload and an object
\* with a number for its type, the first has been returned with an empty
\* payload and the second skipped
C33_Witness ==
    /\ ParsedWhole
    /\ Len(parser.list) = 2
    /\ parser.list[1] = Entry("object", "string", "absent", FALSE)
    /\ parser.list[2] = Entry("object", "number", "object", FALSE)
    /\ parser.out.actions = SomeActions(<<Entry("object", "string", "empty", FALSE)>>)

C35_BackendRunsOnLoadedModel ==
    \A g \in DOMAIN gens : gens[g].backend = "running" => llm_model # Null

\* C36: when every worker that can take a step takes it, an entry that is
\* DOWNLOADING is later in another state or removed
C36_DownloadingEnds ==
    \A m \in Models :
        (Has(models, m) /\ models[m].state = DOWNLOADING)
            ~> ~(Has(models, m) /\ models[m].state = DOWNLOADING)

\* C37: while a worker thread is inside _update_progress, holding the
\* progress lock, the progress map is changed by nothing but the write of that
\* update, which releases the lock
C37_MapChangesUnderLock ==
    [][(progress_lock # Unlocked /\ progress' # progress)
           => progress_lock' = Unlocked]_vars

\* the events of model m in a queue, oldest first
EventsOf(q, m) == SelectSeq(q, LAMBDA e : e.model_id = m)

\* the record of m a client has after the progress deltas of q, starting
\* from the record rec
LastRecord(q, m, rec) ==
    LET deltas == SelectSeq(q, LAMBDA e : e.kind = "progress" /\ e.model_id = m)
    IN  IF deltas = <<>> THEN rec ELSE deltas[Len(deltas)].progress

\* the record of m in a progress map, NoRecord when it has none
RecordIn(P, m) == IF Has(P, m) THEN P[m] ELSE NoRecord

\* the catalogue entry or the progress record of m is not as in the maps M, P
Differs(M, P, m) ==
    \/ Has(models, m) # Has(M, m)
    \/ Has(progress, m) # Has(P, m)
    \/ Has(models, m) /\ models[m] # M[m]

\* connection s holds its snapshot, not yet sent: the deltas waiting in its
\* queue bring the snapshot's record of every model up to date, and a model of
\* which the entry or the record is not as in the snapshot has a delta waiting
Accounted(s) ==
    streams[s].pc = "opened" =>
        \A m \in Models :
            /\ Has(progress, m) =>
                   LastRecord(streams[s].queue, m,
                              RecordIn(streams[s].snap.progress, m)) = progress[m]
            /\ Differs(streams[s].snap.models, streams[s].snap.progress, m)
                   => EventsOf(streams[s].queue, m) # <<>>

C39_LoadedIsTheActive ==
    ((\A m \in ModelIds : actPc[m] = "idle") /\ llm_model # Null)
        => \A a \in ActiveEntries : llm_model_id = a

\* C39 witness: after the activations of two models, no request in flight,
\* the model loaded is the one ACTIVE entry and the other entry is READY and
\* on disk
C39_Witness ==
    /\ \A m \in ModelIds : actPc[m] = "idle"
    /\ llm_model # Null
    /\ ActiveEntries = {llm_model_id}
    /\ \E x \in DOMAIN models :
          /\ x # llm_model_id
          /\ models[x].state = READY
          /\ <<x, models[x].local_path>> \in files

\* the statuses a progress record ends a download with
TerminalStatuses == {"completed", "error", "cancelled"}

\* C40: the status of a progress record moves from queued to downloading to a
\* terminal status and never back, and a record in a terminal status keeps
\* every field until start_download seeds it again
C40_StatusForwardOnly ==
    [][\A m \in Models :
          (Has(progress, m) /\ Has(progress', m) /\ progress'[m] # progress[m]) =>
              \/ progress'[m].status = "queued" /\ progress'[m].downloaded = 0
              \/ /\ progress[m].status = "queued"
                 /\ progress'[m].status \in {"downloading"} \cup TerminalStatuses
              \/ /\ progress[m].status = "downloading"
                 /\ progress'[m].status \in {"downloading"} \cup TerminalStatuses]_vars

====
